---------------------------- MODULE Spec2Model ----------------------------
(***************************************************************************)
(* A model of the dht key-value store: the storage node (in-memory map,   *)
(* write-ahead log, TTL, crash recovery), the replication coordinator and *)
(* the gateway's write orchestration.                                     *)
(*                                                                         *)
(* Time is a bounded integer clock `now`; time.Now() reads it.  The WAL   *)
(* file is the sequence of its decodable records.  A request handler is   *)
(* split only where the code releases one mutex and takes another.        *)
(***************************************************************************)
EXTENDS Integers, Sequences, FiniteSets, TLC

(***************************************************************************)
(* Bounds of the model.                                                    *)
(***************************************************************************)
MaxTime == 2        \* the clock runs over 0..MaxTime
MaxOps == 2         \* records the WAL file of a storage node may come to hold

HashSpace == 16     \* hash values range over 0..HashSpace-1 (the source's are 64-bit)
VirtualReplicas == 2 \* virtual points per physical node (150 in the source)
QueueCap == 1       \* capacity of the coordinator's eventual queue (1000 in the source)
RetryQueueCap == 1  \* capacity of the coordinator's retry queue (500 in the source)
MaxClock == 3       \* the gateway's clock runs from 0 to MaxClock
MaxSessionWrites == 2 \* the PUT and DELETE requests of one session

Keys == {"k1", "k2"}
Values == {"v1", "v2"}
\* the ttl query parameter as sent: absent, one clock tick, or not a duration
TTLParams == {"", "1", "abc"}
\* the request handlers of a storage node that may run at the same time
Handlers == {1, 2}

\* HTTP status codes used by the handlers (net/http constants).
StatusOK == 200
StatusUnauthorized == 401
StatusTooManyRequests == 429
StatusBadRequest == 400
StatusNotFound == 404
StatusInternalServerError == 500
StatusAccepted == 202
\* ReplicationTask.MaxRetries as handleEventualReplication sets it
MaxRetries == 3
StatusRequestTimeout == 408
StatusServiceUnavailable == 503
\* httpClient.Do returned an error: no response (connection refused, timeout, cancelled)
Unreachable == -1

\* storage.Entry.ExpiresAt == nil
NoExpiry == -1
\* the error result of Storage.Get
KeyNotFound == "<not found>"

VARIABLES
    \* ---- storage node (cmd/dhtnode, internal/storage) ----
    data,       \* Storage.data: a map, here a function over the keys present
    wal,        \* the WAL file: the sequence of records appended and kept
    now,        \* the wall clock
    req,        \* the request handlers in flight, one slot per handler
    \* ---- history variables (not program state) ----
    lastPut,    \* per key: the last SET applied by a handler, if no DELETE followed
    failed,     \* some request was answered non-200, or an unacknowledged record is in the WAL
    skewed,     \* the clock advanced between a handler's WAL append and its map update
    \* ---- cluster: gateway, replication coordinator, the storage nodes' maps ----
    gw,             \* the gateway's PutKey/DeleteKey handlers, one slot per client
    sr,             \* the coordinator's handleStrongReplication calls, one slot per client
    store,          \* per storage node: its in-memory map
    eventualQueue,  \* Replicator.eventualQueue
    \* ---- coordinator: eventual workers and the retry path ----
    worker,         \* per worker goroutine: the task in processEventualTask, if any
    retryQueue,     \* Replicator.retryQueue
    backoff,        \* the tasks whose retry goroutine sleeps or waits to send
    \* ---- history variables (not program state) ----
    fate,           \* per client: what became of its eventual POST /replicate
    contacted,      \* the clients for whose eventual task a replica call was made
    \* ---- gateway: rate limiter ----
    buckets,        \* every TokenBucket allocated so far: tokens and lastRefill
    bucketOf,       \* RateLimiterStore.buckets[userID]: index into buckets, 0 if absent
    lim,            \* the user's requests inside RateLimiterStore.AllowRequest
    clock,          \* time.Now() as the gateway sees it
    admittedAt,     \* history: per instant, how many requests were admitted
    \* ---- hash ring under AddNode / RemoveNode ----
    ring,           \* a HashRing: nodes, virtualNodes, sortedHashes
    ringOp,         \* history: the last ring operation, its node, the ring before it
    \* ---- one client talking to the gateway, one request after the other ----
    session,        \* history: what the answered writes promise, and the last GET
    \* ---- storage node: WAL compaction ----
    compaction,     \* history: the live entries when WAL.Truncate last ran
    \* ---- coordinator: metrics and shutdown ----
    replicator,     \* Replicator.metrics.maxLag / retriesInProgress, stopCh, exited workers
    \* ---- gateway: middleware ----
    mw              \* per request goroutine: where the request is in AuthMiddleware

nodeVars == <<data, wal, now, req, lastPut, failed, skewed>>

clusterVars == <<gw, sr, store, eventualQueue>>

workerVars == <<worker, retryQueue, backoff, fate, contacted>>

\* everything outside the storage node, the gateway and the strong path.
limiterVars == <<buckets, bucketOf, lim, clock, admittedAt>>

ringVars == <<ring, ringOp>>

sessionVars == <<session>>

histVars == <<compaction>>

coordVars == <<replicator>>

mwVars == <<mw>>

extVars ==
    <<workerVars, limiterVars, ringVars, sessionVars, histVars, coordVars, mwVars>>

vars == <<nodeVars, clusterVars, extVars>>

(***************************************************************************)
(* internal/storage/storage.go                                             *)
(***************************************************************************)

\* Storage.Set as of time t: overwrites unconditionally; ExpiresAt = now + ttl
\* only when ttl > 0.
StorageSet(m, key, value, ttl, t) ==
    LET entry == [value |-> value,
                  expiresAt |-> IF ttl > 0 THEN t + ttl ELSE NoExpiry]
    IN [x \in DOMAIN m \cup {key} |-> IF x = key THEN entry ELSE m[x]]

\* Storage.Delete: the error result (key not found) leaves the map alone.
StorageDeleteFound(m, key) == key \in DOMAIN m

StorageDelete(m, key) ==
    IF key \in DOMAIN m THEN [x \in DOMAIN m \ {key} |-> m[x]] ELSE m

\* entry.ExpiresAt != nil && entry.ExpiresAt.Before(now)
EntryExpired(entry, t) == entry.expiresAt # NoExpiry /\ entry.expiresAt < t

\* Storage.Get as of time t: the value, or KeyNotFound for an absent or expired key.
StorageGet(m, key, t) ==
    IF key \notin DOMAIN m THEN KeyNotFound
    ELSE IF EntryExpired(m[key], t) THEN KeyNotFound
    ELSE m[key].value

\* the body of cleanupExpired's loop: drop every entry expired as of t.
ReapExpired(m, t) ==
    [x \in {k \in DOMAIN m : ~EntryExpired(m[k], t)} |-> m[x]]

\* Storage.KeyCount as of time t: the entries with ExpiresAt == nil or
\* ExpiresAt.After(now).
KeyCount(m, t) ==
    Cardinality({k \in DOMAIN m : m[k].expiresAt = NoExpiry \/ m[k].expiresAt > t})

(***************************************************************************)
(* internal/storage/wal.go                                                 *)
(***************************************************************************)

\* the WALEntry that WAL.Append builds (Timestamp: time.Now()).  The Timestamp is
\* kept for the records with a TTL, the only ones whose Timestamp is ever read.
WALEntry(operation, key, value, ttl, t) ==
    [op |-> operation, key |-> key, value |-> value, ttl |-> ttl,
     ts |-> IF ttl > 0 THEN t ELSE 0]

\* WAL.Append succeeding: the record is encoded at the end of the file and synced.
WALAppend(w, operation, key, value, ttl, t) ==
    Append(w, WALEntry(operation, key, value, ttl, t))

\* Restore's test on a decoded record: TTL > 0 and Timestamp+TTL before now.
RestoreSkips(entry, t) == entry.ttl > 0 /\ entry.ts + entry.ttl < t

\* one iteration of Restore's loop on a decoded record, as of time t.
RestoreApply(m, entry, t) ==
    IF RestoreSkips(entry, t) THEN m
    ELSE IF entry.op = "SET" THEN StorageSet(m, entry.key, entry.value, entry.ttl, t)
    ELSE IF entry.op = "DELETE" THEN StorageDelete(m, entry.key)
    ELSE m

\* a record whose message is complete in the file but does not decode.
GarbledRecord == [op |-> "GARBLED"]

\* a record cut short by a failed or interrupted write: the length prefix of its
\* gob message promises more bytes than were written.  swallows: how many of the
\* records appended later lie within the bytes the prefix still asks for.
TornRecord(swallows) == [op |-> "TORN", swallows |-> swallows]

\* decoder.Decode succeeds on this record.
Decodable(rec) == rec.op \in {"SET", "DELETE"}

\* the rest of the file after Decode returned an error other than EOF on its
\* first record: the decoder has consumed the bytes its length prefix named,
\* for a torn record taken from what follows it.
AfterDecodeError(w) ==
    LET rest == Tail(w)
        gone == IF Head(w).op = "TORN"
                THEN (IF Head(w).swallows < Len(rest) THEN Head(w).swallows
                      ELSE Len(rest))
                ELSE 0
    IN SubSeq(rest, gone + 1, Len(rest))

\* WAL.Restore: Decode after Decode until EOF; a decode error is skipped with
\* continue, a decoded record is applied onto the map m.
RECURSIVE WALRestore(_, _, _)
WALRestore(w, m, t) ==
    IF w = <<>> THEN m
    ELSE IF ~Decodable(Head(w)) THEN WALRestore(AfterDecodeError(w), m, t)
    ELSE WALRestore(Tail(w), RestoreApply(m, Head(w), t), t)

(***************************************************************************)
(* cmd/dhtnode: the request handlers                                       *)
(***************************************************************************)

IdleReq ==
    [pc |-> "idle", op |-> "NONE", key |-> "", value |-> "", ttl |-> 0, param |-> "",
     resp |-> 0]

\* time.ParseDuration on the ttl parameter, in clock ticks.
ParseDuration(ttlStr) ==
    IF ttlStr = "1" THEN [err |-> FALSE, d |-> 1] ELSE [err |-> TRUE, d |-> 0]

\* handlePut: ttl stays 0 unless the parameter is there and parses.
handlePutTTL(ttlStr) ==
    IF ttlStr # "" /\ ~ParseDuration(ttlStr).err THEN ParseDuration(ttlStr).d ELSE 0

\* history of a key: no SET stands (none applied, or a DELETE followed).
NoPut == [set |-> FALSE, value |-> "", deadline |-> NoExpiry, crashed |-> FALSE]

\* history of a key: a handler applied SET value with TTL ttl at time t, so the
\* entry's deadline is T+D (none without a TTL).
PutAt(value, ttl, t) ==
    [set |-> TRUE, value |-> value,
     deadline |-> IF ttl > 0 THEN t + ttl ELSE NoExpiry, crashed |-> FALSE]

\* a handler that has answered with status and returned: the slot is free again
\* and keeps the status of the response it sent.
Responded(status) == [IdleReq EXCEPT !.resp = status]

\* (mutant) the return after respondError is missing: the handler goes on to the map.
AfterAppendErr_NoReturn(q) == [q EXCEPT !.pc = "appended", !.resp = StatusInternalServerError]

\* the handler after n.wal.Append returned an error: respondError(500) and return.
AfterAppendErr(q) == Responded(StatusInternalServerError)

\* (mutant) the in-memory update is not held back until the WAL append returned.
MayApply_BeforeAppend(r) == req[r].pc \in {"recv", "appended"}

\* which handlers may run the in-memory update: those whose WAL append returned.
MayApply(r) == req[r].pc = "appended"

\* http.ResponseWriter: the first WriteHeader decides the status.
WriteHeader(q, status) == IF q.resp = 0 THEN status ELSE q.resp

\* a request PUT /store/{key}?ttl= or DELETE /store/{key} reaches a free handler.
\* Handler goroutines are interchangeable: the lowest free slot takes the request.
Receive(r, ttls) ==
    /\ req[r].pc = "idle"
    /\ \A o \in Handlers : o < r => req[o].pc # "idle"
    /\ Len(wal) < MaxOps
    /\ \E key \in Keys :
          \/ \E value \in Values, ttlStr \in ttls :
                req' = [req EXCEPT ![r] = [pc |-> "recv", op |-> "SET", key |-> key,
                                            value |-> value, ttl |-> handlePutTTL(ttlStr),
                                            param |-> ttlStr, resp |-> 0]]
          \/ req' = [req EXCEPT ![r] = [pc |-> "recv", op |-> "DELETE", key |-> key,
                                         value |-> "", ttl |-> 0, param |-> "",
                                         resp |-> 0]]
    /\ UNCHANGED <<data, wal, now, lastPut, failed, skewed>>
    /\ UNCHANGED clusterVars
    /\ UNCHANGED extVars

\* handlePut / handleDelete up to the return of n.wal.Append, which succeeds.
AppendOk(r) ==
    /\ req[r].pc = "recv"
    /\ wal' = WALAppend(wal, req[r].op, req[r].key, req[r].value, req[r].ttl, now)
    /\ req' = [req EXCEPT ![r].pc = "appended"]
    /\ UNCHANGED <<data, now, lastPut, failed, skewed>>
    /\ UNCHANGED clusterVars
    /\ UNCHANGED extVars

\* n.wal.Append fails (Encode or Sync returns an error): 500.  The bytes of the
\* record may or may not have reached the file.
AppendErr(r) ==
    /\ req[r].pc = "recv"
    /\ \E written \in BOOLEAN :
          wal' = IF written
                 THEN WALAppend(wal, req[r].op, req[r].key, req[r].value, req[r].ttl, now)
                 ELSE wal
    /\ req' = [req EXCEPT ![r] = AfterAppendErr(req[r])]
    /\ failed' = TRUE
    /\ UNCHANGED <<data, now, lastPut, skewed>>
    /\ UNCHANGED clusterVars
    /\ UNCHANGED extVars

\* n.wal.Append fails after part of the record's message was written: 500, and
\* a torn record stays in the file, after which later records are appended.
TornAppend(r) ==
    /\ req[r].pc = "recv"
    /\ \E swallows \in 0..1 : wal' = Append(wal, TornRecord(swallows))
    /\ req' = [req EXCEPT ![r] = AfterAppendErr(req[r])]
    /\ failed' = TRUE
    /\ UNCHANGED <<data, now, lastPut, skewed>>
    /\ UNCHANGED clusterVars
    /\ UNCHANGED extVars

\* the bytes of one record's payload are damaged on disk.
GarbleRecord ==
    /\ \E i \in 1..Len(wal) :
          /\ Decodable(wal[i])
          /\ wal' = [wal EXCEPT ![i] = GarbledRecord]
    /\ failed' = TRUE
    /\ UNCHANGED <<data, now, req, lastPut, skewed>>
    /\ UNCHANGED clusterVars
    /\ UNCHANGED extVars

\* handlePut after the append: n.storage.Set, then 200.
handlePutSet(r) ==
    /\ MayApply(r)
    /\ req[r].op = "SET"
    /\ data' = StorageSet(data, req[r].key, req[r].value, req[r].ttl, now)
    /\ req' = [req EXCEPT ![r] = Responded(WriteHeader(req[r], StatusOK))]
    /\ lastPut' = [lastPut EXCEPT ![req[r].key] = PutAt(req[r].value, req[r].ttl, now)]
    /\ UNCHANGED <<wal, now, failed, skewed>>
    /\ UNCHANGED clusterVars
    /\ UNCHANGED extVars

\* handleDelete after the append: n.storage.Delete, 404 on its error, else 200.
handleDeleteApply(r) ==
    /\ MayApply(r)
    /\ req[r].op = "DELETE"
    /\ data' = StorageDelete(data, req[r].key)
    /\ LET status == IF StorageDeleteFound(data, req[r].key)
                     THEN StatusOK ELSE StatusNotFound
       IN /\ req' = [req EXCEPT ![r] = Responded(WriteHeader(req[r], status))]
          /\ failed' = (failed \/ status # StatusOK)
    /\ lastPut' = [lastPut EXCEPT ![req[r].key] = NoPut]
    /\ UNCHANGED <<wal, now, skewed>>
    /\ UNCHANGED clusterVars
    /\ UNCHANGED extVars

\* Storage.cleanupExpired: one tick of the reaper, under the map's lock.
cleanupExpired ==
    /\ data' = ReapExpired(data, now)
    /\ data' # data
    /\ UNCHANGED <<wal, now, req, lastPut, failed, skewed>>
    /\ UNCHANGED clusterVars
    /\ UNCHANGED extVars

\* the wall clock advances.
Tick ==
    /\ now < MaxTime
    /\ now' = now + 1
    /\ skewed' = (skewed \/ \E r \in Handlers : req[r].pc = "appended" /\ req[r].ttl > 0)
    /\ UNCHANGED <<data, wal, req, lastPut, failed>>
    /\ UNCHANGED clusterVars
    /\ UNCHANGED extVars

\* the process dies and main() runs again: NewStorage, NewWAL, wal.Restore(store),
\* all before the server listens.  Requests in flight are lost.
CrashAndRestore ==
    /\ data' = WALRestore(wal, <<>>, now)
    /\ req' = [r \in Handlers |-> IdleReq]
    /\ failed' = (failed \/ \E r \in Handlers : req[r].pc \in {"recv", "appended"})
    /\ lastPut' = [k \in Keys |-> IF lastPut[k].set
                                   THEN [lastPut[k] EXCEPT !.crashed = TRUE]
                                   ELSE lastPut[k]]
    /\ UNCHANGED <<wal, now, skewed>>
    /\ UNCHANGED clusterVars
    /\ UNCHANGED extVars

\* WAL.Truncate: close the file, remove it, create it again empty.  Nothing is
\* read from the map and nothing is written to the new file.  One compaction
\* per run of the model.
Truncate ==
    /\ ~compaction.done
    /\ wal' = <<>>
    /\ compaction' = [done |-> TRUE,
                      quiet |-> \A r \in Handlers : req[r].pc = "idle",
                      live |-> [k \in {x \in DOMAIN data : ~EntryExpired(data[x], now)}
                                   |-> data[k]]]
    /\ UNCHANGED <<data, now, req, lastPut, failed, skewed>>
    /\ UNCHANGED clusterVars
    /\ UNCHANGED <<workerVars, limiterVars, ringVars, sessionVars, coordVars, mwVars>>

HistInit == compaction = [done |-> FALSE, quiet |-> FALSE, live |-> <<>>]

NodeInit ==
    /\ data = <<>>
    /\ wal = <<>>
    /\ now = 0
    /\ req = [r \in Handlers |-> IdleReq]
    /\ lastPut = [k \in Keys |-> NoPut]
    /\ failed = FALSE
    /\ skewed = FALSE

\* one step of handler r, for requests whose ttl parameter is drawn from ttls.
HandlerStep(r, ttls) ==
    \/ Receive(r, ttls)
    \/ AppendOk(r)
    \/ AppendErr(r)
    \/ handlePutSet(r)
    \/ handleDeleteApply(r)

(***************************************************************************)
(* hashring: the consistent-hash ring the gateway routes with              *)
(***************************************************************************)
\* the node list the gateway's main() passes to NewHashRing, in that order.
GatewayNodes == <<"n1", "n2", "n3">>

Nodes == {GatewayNodes[i] : i \in 1..Len(GatewayNodes)}

replicationN == 3

\* node names a ring may be built from or changed with.
RingNodes == <<"n1", "n2", "n3", "n4">>

NodeIndex(node) == CHOOSE i \in 1..Len(RingNodes) : RingNodes[i] = node

KeyIndex(key) == IF key = "k1" THEN 1 ELSE 2

\* HashRing.hash: FNV-1a (64 bit) of a string, here a fixed function onto
\* 0..HashSpace-1 that keeps the virtual keys of different points apart.
\* s is <<node, i>> for the virtual key node + ":" + rune(i), and <<key>> for a key.
hash(s) ==
    IF Len(s) = 2
    THEN (7 * ((NodeIndex(s[1]) - 1) + Len(RingNodes) * s[2]) + 3) % HashSpace
    ELSE (2 * KeyIndex(s[1]) + 1) % HashSpace

\* sort.Slice(hr.sortedHashes, less): ascending, equal hashes stay in the slice.
InsertHash(sorted, h) ==
    LET k == Cardinality({i \in 1..Len(sorted) : sorted[i] < h})
    IN SubSeq(sorted, 1, k) \o <<h>> \o SubSeq(sorted, k + 1, Len(sorted))

RECURSIVE SortHashes(_)
SortHashes(hashes) ==
    IF hashes = <<>> THEN <<>>
    ELSE InsertHash(SortHashes(Tail(hashes)), Head(hashes))

\* HashRing.addNodes: VirtualReplicas points per node; a later point with the same
\* hash overwrites the map entry, and its hash is appended to the slice again.
addNodes(hr, nodes) ==
    LET count == Len(nodes) * VirtualReplicas
        nodeAt(j) == nodes[((j - 1) \div VirtualReplicas) + 1]
        hashAt(j) == hash(<<nodeAt(j), (j - 1) % VirtualReplicas>>)
        added == {hashAt(j) : j \in 1..count}
        last(h) == CHOOSE j \in 1..count :
                      hashAt(j) = h /\ \A o \in 1..count : hashAt(o) = h => o <= j
    IN [hr EXCEPT
          !.virtualNodes = [h \in (DOMAIN hr.virtualNodes) \cup added |->
                               IF h \in added THEN nodeAt(last(h))
                               ELSE hr.virtualNodes[h]],
          !.sortedHashes = SortHashes(hr.sortedHashes \o [j \in 1..count |-> hashAt(j)])]

NewHashRing(nodes) ==
    addNodes([nodes |-> nodes, virtualNodes |-> <<>>, sortedHashes |-> <<>>], nodes)

\* hr.virtualNodes[h]: a Go map read, the empty string when h is not a key.
VirtualNode(hr, h) ==
    IF h \in DOMAIN hr.virtualNodes THEN hr.virtualNodes[h] ELSE ""

\* sort.Search: the first position whose hash is >= keyHash, or one past the end.
SearchHashes(sorted, keyHash) ==
    Cardinality({i \in 1..Len(sorted) : \A o \in 1..i : sorted[o] < keyHash}) + 1

\* what LocateKey yields when its loop never ends: no value at all.
Diverges == <<"<diverges>">>

\* the loop of LocateKey: walk clockwise, collect physical nodes not seen yet.
\* steps counts the points visited; once every point of the ring has been visited
\* the result cannot grow any more, and a loop whose condition still holds then
\* runs forever.
RECURSIVE LocateWalk(_, _, _, _, _)
LocateWalk(hr, idx, result, n, steps) ==
    IF ~(Len(result) < n /\ Len(result) < Len(hr.nodes)) THEN result
    ELSE IF steps >= Len(hr.sortedHashes) THEN Diverges
    ELSE LET i == IF idx > Len(hr.sortedHashes) THEN 1 ELSE idx
             node == VirtualNode(hr, hr.sortedHashes[i])
             seen == {result[o] : o \in 1..Len(result)}
         IN LocateWalk(hr, i + 1,
                       IF node \in seen THEN result ELSE Append(result, node),
                       n, steps + 1)

\* LocateKey after keyHash := hr.hash(key).
LocateHash(hr, keyHash, n) ==
    IF Len(hr.sortedHashes) = 0 THEN <<>>
    ELSE LocateWalk(hr, SearchHashes(hr.sortedHashes, keyHash), <<>>,
                    IF n <= 0 THEN replicationN ELSE n, 0)

LocateKey(hr, key, n) == LocateHash(hr, hash(<<key>>), n)

\* HashRing.GetNode after keyHash := hr.hash(key): the first node, or "".
GetNodeAt(hr, keyHash) ==
    LET nodes == LocateHash(hr, keyHash, 1)
    IN IF Len(nodes) = 0 THEN "" ELSE nodes[1]

\* GetNode reading the second node of the walk, not the first.
GetNode_Second(hr, key) ==
    LET nodes == LocateKey(hr, key, 2)
    IN IF Len(nodes) < 2 THEN "" ELSE nodes[2]

GetNode(hr, key) == GetNodeAt(hr, hash(<<key>>))

GetAllNodes(hr) == hr.nodes

SeqContains(seq, x) == \E i \in 1..Len(seq) : seq[i] = x

\* AddNode without the early return for a node that is already on the ring.
AddNode_NoCheck(hr, node) ==
    addNodes([hr EXCEPT !.nodes = Append(hr.nodes, node)], <<node>>)

\* HashRing.AddNode: nothing when the node is in hr.nodes, else append it and
\* add its points.
AddNode(hr, node) ==
    IF SeqContains(hr.nodes, node) THEN hr
    ELSE addNodes([hr EXCEPT !.nodes = Append(hr.nodes, node)], <<node>>)

\* the first loop of RemoveNode with its comparison turned around.
RECURSIVE RemoveWalk_Flipped(_, _, _, _)
RemoveWalk_Flipped(hashes, virtualNodes, kept, node) ==
    IF hashes = <<>> THEN [virtualNodes |-> virtualNodes, sortedHashes |-> kept]
    ELSE LET h == Head(hashes)
             owner == IF h \in DOMAIN virtualNodes THEN virtualNodes[h] ELSE ""
         IN IF owner = node
            THEN RemoveWalk_Flipped(Tail(hashes), virtualNodes, Append(kept, h), node)
            ELSE RemoveWalk_Flipped(Tail(hashes),
                            [o \in (DOMAIN virtualNodes) \ {h} |-> virtualNodes[o]],
                            kept, node)

\* the first loop of RemoveNode: in slice order, a hash whose map entry is the
\* node is deleted from the map, every other hash is kept in the new slice;
\* the map is read after the deletions made so far.
RECURSIVE RemoveWalk(_, _, _, _)
RemoveWalk(hashes, virtualNodes, kept, node) ==
    IF hashes = <<>> THEN [virtualNodes |-> virtualNodes, sortedHashes |-> kept]
    ELSE LET h == Head(hashes)
             owner == IF h \in DOMAIN virtualNodes THEN virtualNodes[h] ELSE ""
         IN IF owner # node
            THEN RemoveWalk(Tail(hashes), virtualNodes, Append(kept, h), node)
            ELSE RemoveWalk(Tail(hashes),
                            [o \in (DOMAIN virtualNodes) \ {h} |-> virtualNodes[o]],
                            kept, node)

\* HashRing.RemoveNode: drop the node's points, then every entry of hr.nodes
\* that names it.
RemoveNode(hr, node) ==
    LET walked == RemoveWalk(hr.sortedHashes, hr.virtualNodes, <<>>, node)
    IN [nodes |-> SelectSeq(hr.nodes, LAMBDA n : n # node),
        virtualNodes |-> walked.virtualNodes,
        sortedHashes |-> walked.sortedHashes]

\* the ring of the running gateway: built once in main(), never changed afterwards.
GatewayRing == NewHashRing(GatewayNodes)

(***************************************************************************)
(* cluster: gateway handlers, replication coordinator, storage nodes       *)
(***************************************************************************)
Clients == {1, 2}

Consistencies == {"strong", "eventual"}

\* replica_nodes lists a client may POST to the coordinator directly.
ReplicaLists == {<<>>, <<"n1">>, <<"n2", "n3">>, <<"n1", "n2", "n3">>}

\* what can happen to one HTTP call to a storage node: the node serves it, the
\* node's WAL append fails, or the call ends with a transport error.
CallOutcomes == {"ok", "walfail", "unreachable"}

\* a storage node's answer to PUT or DELETE /store/{key} (handlePut, handleDelete).
NodeStatus(m, op, key, walOk) ==
    IF ~walOk THEN StatusInternalServerError
    ELSE IF op = "DELETE" /\ ~StorageDeleteFound(m, key) THEN StatusNotFound
    ELSE StatusOK

\* the node's map after serving that request (requests here carry no ttl).
NodeApply(m, op, key, value, walOk) ==
    IF ~walOk THEN m
    ELSE IF op = "SET" THEN StorageSet(m, key, value, 0, 0)
    ELSE StorageDelete(m, key)

\* httpClient.Do against node state m: the status seen by the caller.
CallStatus(m, op, key, outcome) ==
    IF outcome = "unreachable" THEN Unreachable
    ELSE NodeStatus(m, op, key, outcome = "ok")

CallStore(m, op, key, value, outcome) ==
    IF outcome = "unreachable" THEN m
    ELSE NodeApply(m, op, key, value, outcome = "ok")

IdleGw ==
    [pc |-> "idle", op |-> "NONE", key |-> "", value |-> "", consistency |-> "",
     user |-> 0, primary |-> "", replicas |-> <<>>, primStatus |-> 0, dispatched |-> FALSE,
     coordStatus |-> 0, bg |-> "none", bgStatus |-> 0, resp |-> 0, body |-> ""]

IdleSr ==
    [pc |-> "off", op |-> "NONE", key |-> "", value |-> "", replicas |-> <<>>,
     pending |-> {}, results |-> <<>>, ackedCount |-> 0, i |-> 0, status |-> 0,
     acked |-> {}, cut |-> {}, unlisted |-> {}, ackedNodes |-> <<>>,
     respAcked |-> <<>>]

\* models.ReplicationRequest as the gateway handler g fills it in.
ReplReq(g) ==
    [op |-> g.op, key |-> g.key, value |-> g.value, consistency |-> g.consistency,
     replicas |-> g.replicas, user |-> g.user]

\* (mutant) the quorum is half of the replicas, rounded down.
majorityRequired_Half(totalNodes) == totalNodes \div 2

\* handleStrongReplication: majorityRequired := (totalNodes / 2) + 1
majorityRequired(totalNodes) == (totalNodes \div 2) + 1

\* (mutant) the gateway never treats the primary's answer as a failure.
PrimaryFailed_Never(op, status) == FALSE

\* PutKey: resp.StatusCode != 200; DeleteKey: != 200 && != 404.
PrimaryFailed(op, status) ==
    IF op = "SET" THEN status # StatusOK
    ELSE status # StatusOK /\ status # StatusNotFound

\* (mutant) the gateway waits for POST /replicate under every consistency level.
FireAndForget_Never(consistency) == FALSE

\* triggerReplication: the POST runs in a goroutine iff consistency == "eventual".
FireAndForget(consistency) == consistency = "eventual"

\* replicateToNode: success iff the replica answered 2xx.
ReplicaSuccess(status) == status >= 200 /\ status < 300

\* (mutant) the send on eventualQueue is not guarded by the queue's capacity.
handleEventualReplication_NoLimit(replReq, queue) ==
    [sr |-> [pc |-> "returned", op |-> "NONE", key |-> "", value |-> "",
             replicas |-> <<>>, pending |-> {}, results |-> <<>>, ackedCount |-> 0,
             i |-> 0, status |-> StatusAccepted, acked |-> {},
             cut |-> {}, unlisted |-> {}, ackedNodes |-> <<>>, respAcked |-> <<>>],
     queue |-> Append(queue, [request |-> replReq, retries |-> 0])]

\* handleEventualReplication: non-blocking send on eventualQueue, 202 or 503.
handleEventualReplication(replReq, queue) ==
    IF Len(queue) < QueueCap
    THEN [sr |-> [IdleSr EXCEPT !.pc = "returned", !.status = StatusAccepted],
          queue |-> Append(queue, [request |-> replReq, retries |-> 0])]
    ELSE [sr |-> [IdleSr EXCEPT !.pc = "returned", !.status = StatusServiceUnavailable],
          queue |-> queue]

\* (mutant) the end of the loop is reported as a timeout.
AfterLoop_Timeout(ackedCount, totalNodes) == StatusRequestTimeout

\* the end of handleStrongReplication's loop without a quorum: 500 if ackedCount
\* is below the quorum; otherwise the handler returns having written nothing,
\* and net/http sends 200.
AfterLoop(ackedCount, totalNodes) ==
    IF ackedCount < majorityRequired(totalNodes)
    THEN StatusInternalServerError ELSE StatusOK

\* a strong handler that has written status and returned; its locals are gone.
StrongReturned(s, status) ==
    [s EXCEPT !.pc = "returned", !.status = status, !.results = <<>>,
              !.ackedCount = 0, !.i = 0,
              !.respAcked = IF status = StatusOK THEN s.ackedNodes ELSE <<>>,
              !.ackedNodes = <<>>, !.unlisted = {}]

\* handleStrongReplication up to its first select: one goroutine per replica.
handleStrongReplication(replReq) ==
    LET totalNodes == Len(replReq.replicas)
        started == [IdleSr EXCEPT !.pc = "loop", !.op = replReq.op, !.key = replReq.key,
                                  !.value = replReq.value, !.replicas = replReq.replicas,
                                  !.pending = 1..totalNodes]
    IN IF totalNodes = 0 THEN StrongReturned(started, AfterLoop(0, 0)) ELSE started

\* HandleReplicate: dispatch on the consistency level of the request.
HandleReplicate(replReq, queue) ==
    IF replReq.consistency = "eventual" THEN handleEventualReplication(replReq, queue)
    ELSE [sr |-> handleStrongReplication(replReq), queue |-> queue]

\* a client's POST /replicate straight to the coordinator.
DirectPost(c) ==
    /\ sr[c].pc = "off"
    /\ gw[c].pc = "idle"
    /\ \A o \in Clients : o < c => sr[o].pc # "off"
    /\ \E op \in {"SET", "DELETE"}, key \in {"k1"}, value \in Values,
          consistency \in Consistencies, replicas \in ReplicaLists :
          /\ op = "DELETE" => value = "v1"
          /\ LET replReq == [op |-> op, key |-> key,
                             value |-> IF op = "SET" THEN value ELSE "",
                             consistency |-> consistency, replicas |-> replicas,
                             user |-> c]
                 h == HandleReplicate(replReq, eventualQueue)
             IN /\ sr' = [sr EXCEPT ![c] = h.sr]
                /\ eventualQueue' = h.queue
    /\ UNCHANGED <<gw, store>>
    /\ UNCHANGED nodeVars
    /\ UNCHANGED extVars

\* one fan-out goroutine of handleStrongReplication: replicateToNode against a
\* replica j whose call is still open, then results <- success.  After the handler has returned nobody
\* reads the channel, and the call may have been cancelled with the context.
ReplicaCall(c) ==
    /\ \E j \in sr[c].pending, outcome \in CallOutcomes :
          LET s == sr[c]
              node == s.replicas[j]
              status == CallStatus(store[node], s.op, s.key, outcome)
              success == ReplicaSuccess(status)
          IN /\ store' = [store EXCEPT ![node] =
                             CallStore(store[node], s.op, s.key, s.value, outcome)]
             /\ sr' = [sr EXCEPT ![c] =
                          IF s.pc = "loop"
                          THEN [s EXCEPT !.pending = @ \ {j},
                                         !.results = Append(@, success),
                                         !.acked = IF success THEN @ \cup {j} ELSE @,
                                         !.unlisted = IF success THEN @ \cup {j} ELSE @]
                          ELSE [s EXCEPT !.pending = @ \ {j}]]
    /\ UNCHANGED <<gw, eventualQueue>>
    /\ UNCHANGED nodeVars
    /\ UNCHANGED extVars

\* a fan-out goroutine after results <- success: mu.Lock(), ackedNodes =
\* append(ackedNodes, nodeURL), mu.Unlock().
appendAcked(c) ==
    /\ sr[c].pc = "loop"
    /\ \E j \in sr[c].unlisted :
          sr' = [sr EXCEPT ![c] = [@ EXCEPT !.unlisted = @ \ {j},
                                           !.ackedNodes = Append(@, sr[c].replicas[j])]]
    /\ UNCHANGED <<gw, store, eventualQueue>>
    /\ UNCHANGED nodeVars
    /\ UNCHANGED extVars

\* handleStrongReplication has returned and its deferred cancel() has cancelled
\* ctx: the call to a replica j that is still open ends in httpClient.Do with
\* the context's error before the replica has seen the request.
CancelledCall(c) ==
    /\ sr[c].pc = "returned"
    /\ \E j \in sr[c].pending :
          sr' = [sr EXCEPT ![c] = [@ EXCEPT !.pending = @ \ {j},
                                           !.cut = @ \cup {j}]]
    /\ UNCHANGED <<gw, store, eventualQueue>>
    /\ UNCHANGED nodeVars
    /\ UNCHANGED extVars

\* handleStrongReplication: one iteration of the loop takes a result.
StrongRead(c) ==
    /\ sr[c].pc = "loop"
    /\ sr[c].results # <<>>
    /\ LET s == sr[c]
           success == Head(s.results)
           totalNodes == Len(s.replicas)
           ackedCount == s.ackedCount + (IF success THEN 1 ELSE 0)
       IN sr' = [sr EXCEPT ![c] =
                    IF success /\ ackedCount >= majorityRequired(totalNodes)
                    THEN StrongReturned(s, StatusOK)
                    ELSE IF s.i + 1 = totalNodes
                    THEN StrongReturned(s, AfterLoop(ackedCount, totalNodes))
                    ELSE [s EXCEPT !.results = Tail(@), !.ackedCount = ackedCount,
                                   !.i = @ + 1]]
    /\ UNCHANGED <<gw, store, eventualQueue>>
    /\ UNCHANGED nodeVars
    /\ UNCHANGED extVars

\* handleStrongReplication: the 10 s context expires while the loop waits: 408.
StrongTimeout(c) ==
    /\ sr[c].pc = "loop"
    /\ sr' = [sr EXCEPT ![c] = StrongReturned(sr[c], StatusRequestTimeout)]
    /\ UNCHANGED <<gw, store, eventualQueue>>
    /\ UNCHANGED nodeVars
    /\ UNCHANGED extVars

\* Handler.triggerReplication as seen by handler g: eventual starts the goroutine
\* and the handler goes on to respondJSON(200); strong sends the POST itself.
triggerReplication(g) ==
    IF FireAndForget(g.consistency)
    THEN [g EXCEPT !.dispatched = TRUE, !.bg = "inflight", !.pc = "done",
                   !.resp = StatusOK, !.body = "gateway"]
    ELSE [g EXCEPT !.dispatched = TRUE, !.pc = "post"]

\* PutKey / DeleteKey after h.httpClient.Do(req) to the primary returned.
AfterPrimary(g, status) ==
    LET q == [g EXCEPT !.primStatus = status]
    IN IF status = Unreachable
       THEN [q EXCEPT !.pc = "done", !.resp = StatusServiceUnavailable, !.body = "gateway"]
       ELSE IF PrimaryFailed(q.op, status)
       THEN [q EXCEPT !.pc = "done", !.resp = status, !.body = "primary"]
       ELSE IF Len(q.replicas) > 0
       THEN triggerReplication(q)
       ELSE [q EXCEPT !.pc = "done", !.resp = StatusOK, !.body = "gateway"]

\* PutKey / DeleteKey after triggerReplication returned: always respondJSON(200).
AfterReplication(g, coordStatus) ==
    [g EXCEPT !.pc = "done", !.coordStatus = coordStatus, !.resp = StatusOK,
              !.body = "gateway"]

\* PUT or DELETE /v1/kv/{key} reaches the gateway: consistency header, LocateKey.
GwReceive(c) ==
    /\ gw[c].pc = "idle"
    /\ sr[c].pc = "off"
    /\ \A o \in Clients : o < c => gw[o].pc # "idle"
    /\ \E op \in {"SET", "DELETE"}, key \in Keys, value \in Values,
          consistency \in Consistencies :
          /\ op = "DELETE" => value = "v1"
          /\ LET nodes == LocateKey(GatewayRing, key, 3)
                 g == [IdleGw EXCEPT !.op = op, !.key = key, !.user = c,
                                     !.value = IF op = "SET" THEN value ELSE "",
                                     !.consistency = consistency]
             IN gw' = [gw EXCEPT ![c] =
                          IF Len(nodes) = 0
                          THEN [g EXCEPT !.pc = "done", !.body = "gateway",
                                         !.resp = StatusServiceUnavailable]
                          ELSE [g EXCEPT !.pc = "primary", !.primary = Head(nodes),
                                         !.replicas = Tail(nodes)]]
    /\ UNCHANGED <<sr, store, eventualQueue>>
    /\ UNCHANGED nodeVars
    /\ UNCHANGED extVars

\* the write to the primary and everything the handler does with its answer up
\* to the next call that can block.
GwPrimary(c) ==
    /\ gw[c].pc = "primary"
    /\ \E outcome \in CallOutcomes :
          LET g == gw[c]
              m == store[g.primary]
          IN /\ store' = [store EXCEPT ![g.primary] =
                             CallStore(m, g.op, g.key, g.value, outcome)]
             /\ gw' = [gw EXCEPT ![c] =
                          AfterPrimary(g, CallStatus(m, g.op, g.key, outcome))]
    /\ UNCHANGED <<sr, eventualQueue>>
    /\ UNCHANGED nodeVars
    /\ UNCHANGED extVars

\* triggerReplication, synchronous branch: h.httpClient.Do(req) reaches the
\* coordinator, whose HandleReplicate starts; or it fails and the handler
\* logs, returns and answers.
GwPost(c) ==
    /\ gw[c].pc = "post"
    /\ \E reached \in BOOLEAN :
          IF reached
          THEN LET h == HandleReplicate(ReplReq(gw[c]), eventualQueue)
               IN /\ sr' = [sr EXCEPT ![c] = h.sr]
                  /\ eventualQueue' = h.queue
                  /\ gw' = [gw EXCEPT ![c].pc = "wait"]
          ELSE /\ gw' = [gw EXCEPT ![c] = AfterReplication(gw[c], Unreachable)]
               /\ UNCHANGED <<sr, eventualQueue>>
    /\ UNCHANGED store
    /\ UNCHANGED nodeVars
    /\ UNCHANGED extVars

\* the coordinator's response arrives: the status is logged, the handler answers.
GwAnswer(c) ==
    /\ gw[c].pc = "wait"
    /\ sr[c].status # 0
    /\ gw' = [gw EXCEPT ![c] = AfterReplication(gw[c], sr[c].status)]
    /\ UNCHANGED <<sr, store, eventualQueue>>
    /\ UNCHANGED nodeVars
    /\ UNCHANGED extVars

\* the gateway's http.Client gives up (Timeout: 10 s) before the coordinator answers.
GwTimeout(c) ==
    /\ gw[c].pc = "wait"
    /\ sr[c].status = 0
    /\ gw' = [gw EXCEPT ![c] = AfterReplication(gw[c], Unreachable)]
    /\ UNCHANGED <<sr, store, eventualQueue>>
    /\ UNCHANGED nodeVars
    /\ UNCHANGED extVars

\* the goroutine of triggerReplication's eventual branch: POST /replicate, log.
BgPost(c) ==
    /\ gw[c].bg = "inflight"
    /\ \E reached \in BOOLEAN :
          IF reached
          THEN LET h == HandleReplicate(ReplReq(gw[c]), eventualQueue)
               IN /\ sr' = [sr EXCEPT ![c] = h.sr]
                  /\ eventualQueue' = h.queue
                  /\ gw' = [gw EXCEPT ![c].bg = "done", ![c].bgStatus = h.sr.status]
          ELSE /\ gw' = [gw EXCEPT ![c].bg = "done", ![c].bgStatus = Unreachable]
               /\ UNCHANGED <<sr, eventualQueue>>
    /\ UNCHANGED store
    /\ UNCHANGED nodeVars
    /\ UNCHANGED extVars

ClusterInit ==
    /\ gw = [c \in Clients |-> IdleGw]
    /\ sr = [c \in Clients |-> IdleSr]
    /\ store = [n \in Nodes |-> <<>>]
    /\ eventualQueue = <<>>

(***************************************************************************)
(* coordinator: eventual workers, retries                                  *)
(***************************************************************************)
\* the eventualWorker goroutines of Start() (five, here one) and the retryWorker.
EventualWorkers == {"e1"}

RetryWorker == "r"

Workers == EventualWorkers \cup {RetryWorker}

\* replica_nodes lists of the eventual requests clients POST to the coordinator.
EventualLists == {<<>>, <<"n1">>, <<"n2", "n3">>}

NoTask ==
    [request |-> [op |-> "NONE", key |-> "", value |-> "", consistency |-> "",
                  replicas |-> <<>>, user |-> 0],
     retries |-> 0]

\* a worker outside processEventualTask.  hard is history: some call of the
\* attempt got no answer from its replica (transport error, 5xx, expired context).
IdleWorker ==
    [busy |-> FALSE, task |-> NoTask, idx |-> 0, successCount |-> 0,
     expired |-> FALSE, hard |-> FALSE, loaded |-> FALSE, lag |-> 0,
     currentMaxLag |-> 0]

\* the history of one client's eventual task.  debt: the replicas that failed
\* the first attempt and have not acked since; owed: those of them that were up
\* when a retry was due to call them.
NoFate == [at |-> "none", op |-> "NONE", debt |-> {}, owed |-> {}]

\* processEventualTask starts: a fresh 5 s context, successCount := 0.
BeginAttempt(task) ==
    [busy |-> TRUE, task |-> task, idx |-> 1, successCount |-> 0, expired |-> FALSE,
     hard |-> FALSE, loaded |-> FALSE, lag |-> 0, currentMaxLag |-> 0]

\* what replicateToNode(ctx, node, ...) can meet in an attempt: once the attempt's
\* context has expired the call fails before it is sent; otherwise the node
\* serves it, or the call fails at once, or it hangs until the deadline.
WorkerCallOutcomes(wk) ==
    IF wk.expired THEN {"cancelled"} ELSE {"ok", "fail", "hang"}

\* (mutant) a failed attempt is rescheduled without counting it.
NextRetries_NoCount(task) == task.retries

\* processEventualTask: task.Retries++
NextRetries(task) == task.retries + 1

\* (mutant) the comparison with MaxRetries is <=.
MayRetry_Inclusive(task) == task.retries <= MaxRetries

\* processEventualTask: task.Retries < task.MaxRetries
MayRetry(task) == task.retries < MaxRetries

\* processEventualTask after the loop: is the task scheduled for another attempt?
Reschedule(wk) ==
    wk.successCount < Len(wk.task.request.replicas) /\ MayRetry(wk.task)

Range(seq) == {seq[i] : i \in 1..Len(seq)}

\* the history of a task after a replica call of worker record wk; up: the
\* node was up and serving at the time of the call.
FateAfterCall(f, wk, success, up) ==
    IF wk.task.retries = 0
    THEN [f EXCEPT !.debt = IF success THEN @ ELSE @ \cup {wk.idx}]
    ELSE IF success
    THEN [f EXCEPT !.debt = @ \ {wk.idx}, !.owed = @ \ {wk.idx}]
    ELSE [f EXCEPT !.owed = IF up /\ wk.idx \in f.debt THEN @ \cup {wk.idx} ELSE @]

\* the history of a task after worker record wk finished an attempt.
FateAfterAttempt(f, wk) ==
    IF Reschedule(wk) THEN f
    ELSE [f EXCEPT !.at = IF wk.successCount = Len(wk.task.request.replicas)
                          THEN "done" ELSE "dropped",
                   !.debt = {}]

\* the value client c writes: each client has its own.
ClientValue(c) == IF c = 1 THEN "v1" ELSE "v2"

\* a client's POST /replicate with consistency "eventual" to the coordinator.
EventualPost(c) ==
    /\ sr[c].pc = "off"
    /\ \A o \in Clients : o < c => sr[o].pc # "off"
    /\ \E op \in {"SET", "DELETE"}, replicas \in EventualLists :
          /\ LET replReq == [op |-> op, key |-> "k1",
                             value |-> IF op = "SET" THEN ClientValue(c) ELSE "",
                             consistency |-> "eventual", replicas |-> replicas,
                             user |-> c]
                 h == HandleReplicate(replReq, eventualQueue)
             IN /\ sr' = [sr EXCEPT ![c] = h.sr]
                /\ eventualQueue' = h.queue
                /\ fate' = [fate EXCEPT ![c] =
                               [NoFate EXCEPT !.op = op,
                                              !.at = IF h.sr.status = StatusAccepted
                                                     THEN "accepted" ELSE "rejected"]]
    /\ UNCHANGED <<gw, store, worker, retryQueue, backoff, contacted>>
    /\ UNCHANGED <<nodeVars, limiterVars, ringVars, sessionVars, histVars, coordVars, mwVars>>

\* eventualWorker: case task := <-r.eventualQueue, processEventualTask begins.
eventualWorker(w) ==
    /\ w \in EventualWorkers
    /\ w \notin replicator.exited
    /\ ~worker[w].busy
    /\ eventualQueue # <<>>
    /\ worker' = [worker EXCEPT ![w] = BeginAttempt(Head(eventualQueue))]
    /\ eventualQueue' = Tail(eventualQueue)
    /\ UNCHANGED <<gw, sr, store, retryQueue, backoff, fate, contacted>>
    /\ UNCHANGED <<nodeVars, limiterVars, ringVars, sessionVars, histVars, coordVars, mwVars>>

\* retryWorker: case task := <-r.retryQueue, processEventualTask begins.
retryWorker ==
    /\ RetryWorker \notin replicator.exited
    /\ ~worker[RetryWorker].busy
    /\ retryQueue # <<>>
    /\ worker' = [worker EXCEPT ![RetryWorker] = BeginAttempt(Head(retryQueue))]
    /\ retryQueue' = Tail(retryQueue)
    /\ replicator' = [replicator EXCEPT !.retriesInProgress = @ - 1]
    /\ UNCHANGED <<gw, sr, store, eventualQueue, backoff, fate, contacted>>
    /\ UNCHANGED <<nodeVars, limiterVars, ringVars, sessionVars, histVars, mwVars>>

\* processEventualTask: one iteration of the loop over ReplicaNodes.  Only a
\* later call of the attempt can see that the context has expired.
replicateToNode(w) ==
    /\ worker[w].busy
    /\ worker[w].idx <= Len(worker[w].task.request.replicas)
    /\ LET wk == worker[w]
           r == wk.task.request
           node == r.replicas[wk.idx]
       IN \E outcome \in WorkerCallOutcomes(wk), up \in BOOLEAN :
             LET call == IF outcome = "ok" THEN "ok" ELSE "unreachable"
                 success == ReplicaSuccess(CallStatus(store[node], r.op, r.key, call))
             IN /\ up = (outcome \in {"ok", "cancelled"})
                /\ store' = [store EXCEPT ![node] =
                                CallStore(store[node], r.op, r.key, r.value, call)]
                /\ worker' = [worker EXCEPT ![w] =
                                 [wk EXCEPT !.idx = @ + 1,
                                            !.successCount = IF success THEN @ + 1 ELSE @,
                                            !.expired = @ \/ (outcome = "hang" /\
                                                               wk.idx < Len(r.replicas)),
                                            !.hard = @ \/ outcome # "ok"]]
                /\ contacted' = IF outcome = "cancelled" THEN contacted
                                ELSE contacted \cup {r.user}
                /\ fate' = [fate EXCEPT ![r.user] =
                               FateAfterCall(fate[r.user], wk, success, up)]
    /\ UNCHANGED <<gw, sr, eventualQueue, retryQueue, backoff>>
    /\ UNCHANGED <<nodeVars, limiterVars, ringVars, sessionVars, histVars, coordVars, mwVars>>

\* processEventualTask after the loop: lag := time.Since(task.EnqueuedAt) and
\* currentMaxLag := r.metrics.maxLag.Load().  lags: the lags the clock can show.
loadMaxLag(w, lags) ==
    /\ worker[w].busy
    /\ worker[w].idx > Len(worker[w].task.request.replicas)
    /\ ~worker[w].loaded
    /\ \E lag \in lags :
          worker' = [worker EXCEPT ![w] =
                        [@ EXCEPT !.loaded = TRUE, !.lag = lag,
                                  !.currentMaxLag = replicator.maxLag]]
    /\ UNCHANGED <<gw, sr, store, eventualQueue, retryQueue, backoff, fate, contacted>>
    /\ UNCHANGED <<nodeVars, limiterVars, ringVars, sessionVars, histVars, coordVars, mwVars>>

\* processEventualTask: if lag > currentMaxLag { r.metrics.maxLag.Store(lag) }
StoreMaxLag(maxLag, wk) == IF wk.lag > wk.currentMaxLag THEN wk.lag ELSE maxLag

\* (mutant) scheduling a retry does not count it.
RetriesAfterAttempt_NoAdd(retriesInProgress, wk) == retriesInProgress

\* processEventualTask: r.metrics.retriesInProgress.Add(1) when a retry is scheduled.
RetriesAfterAttempt(retriesInProgress, wk) ==
    IF Reschedule(wk) THEN retriesInProgress + 1 ELSE retriesInProgress

\* processEventualTask from the comparison with currentMaxLag on: store the lag,
\* then schedule a retry (Retries++, retriesInProgress.Add(1) and a goroutine
\* that sleeps, then sends to retryQueue), or let the task go.
finishAttempt(w) ==
    /\ worker[w].busy
    /\ worker[w].idx > Len(worker[w].task.request.replicas)
    /\ worker[w].loaded
    /\ LET wk == worker[w]
           c == wk.task.request.user
       IN /\ backoff' = IF Reschedule(wk)
                        THEN backoff \cup {[wk.task EXCEPT !.retries = NextRetries(wk.task)]}
                        ELSE backoff
          /\ fate' = [fate EXCEPT ![c] = FateAfterAttempt(fate[c], wk)]
          /\ replicator' = [replicator EXCEPT
                               !.maxLag = StoreMaxLag(@, wk),
                               !.retriesInProgress = RetriesAfterAttempt(@, wk),
                               !.observed = IF wk.lag > @ THEN wk.lag ELSE @]
    /\ worker' = [worker EXCEPT ![w] = IdleWorker]
    /\ UNCHANGED <<gw, sr, store, eventualQueue, retryQueue, contacted>>
    /\ UNCHANGED <<nodeVars, limiterVars, ringVars, sessionVars, histVars, mwVars>>

\* the retry goroutine: time.Sleep is over, r.retryQueue <- task (blocks while
\* the channel is full).
retrySend ==
    /\ Len(retryQueue) < RetryQueueCap
    /\ \E task \in backoff :
          /\ retryQueue' = Append(retryQueue, task)
          /\ backoff' = backoff \ {task}
    /\ UNCHANGED <<gw, sr, store, eventualQueue, worker, fate, contacted>>
    /\ UNCHANGED <<nodeVars, limiterVars, ringVars, sessionVars, histVars, coordVars, mwVars>>

\* Stop: close(r.stopCh); r.wg.Wait() then blocks until the workers have exited.
Stop ==
    /\ ~replicator.stopCh
    /\ replicator' = [replicator EXCEPT !.stopCh = TRUE]
    /\ UNCHANGED workerVars
    /\ UNCHANGED clusterVars
    /\ UNCHANGED <<nodeVars, limiterVars, ringVars, sessionVars, histVars, mwVars>>

\* eventualWorker / retryWorker: case <-r.stopCh: return (with the deferred
\* r.wg.Done()).  The select takes this case or a ready queue, whichever it picks.
workerExit(w) ==
    /\ replicator.stopCh
    /\ w \notin replicator.exited
    /\ ~worker[w].busy
    /\ replicator' = [replicator EXCEPT !.exited = @ \cup {w}]
    /\ UNCHANGED workerVars
    /\ UNCHANGED clusterVars
    /\ UNCHANGED <<nodeVars, limiterVars, ringVars, sessionVars, histVars, mwVars>>

\* the retry goroutine after its sleep: case <-r.stopCh, the task is let go.
retryAbandon ==
    /\ replicator.stopCh
    /\ \E task \in backoff : backoff' = backoff \ {task}
    /\ UNCHANGED <<gw, sr, store, eventualQueue, worker, retryQueue, fate, contacted>>
    /\ UNCHANGED <<nodeVars, limiterVars, ringVars, sessionVars, histVars, coordVars, mwVars>>

\* NewReplicator: metrics at zero, stopCh open; observed is the history of the
\* largest lag a finished attempt has measured.
ReplicatorInit ==
    replicator = [maxLag |-> 0, retriesInProgress |-> 0, stopCh |-> FALSE,
                  exited |-> {}, observed |-> 0]

WorkerInit ==
    /\ worker = [w \in Workers |-> IdleWorker]
    /\ retryQueue = <<>>
    /\ backoff = {}
    /\ fate = [c \in Clients |-> NoFate]
    /\ contacted = {}

(***************************************************************************)
(* gateway: the per-user token bucket (cmd/gateway/ratelimiter.go)         *)
(***************************************************************************)
\* tokens are counted in units of 1/TokenUnit of a token; a bucket holds at
\* most maxTokens tokens and gains RefillPerTick units per tick of the clock
\* (10 tokens and 100/60 tokens per second in the source).
TokenUnit == 2

maxTokens == 1

RefillPerTick == 1

\* the goroutines serving requests of the one user.
LimThreads == {1, 2, 3}

IdleLim == [pc |-> "idle", bucket |-> 0]

\* a request that has not arrived at the gateway.  limited, allowed, served:
\* history of what the middleware did with it.
IdleMw ==
    [pc |-> "idle", path |-> "", apiKey |-> "", status |-> 0, limited |-> FALSE,
     allowed |-> FALSE, served |-> FALSE]

\* the paths and X-API-Key headers of the requests sent to the gateway.
Paths == {"/health", "/v1/kv/k1"}

ApiKeys == {"", "bad", "good"}

\* validateAPIKey: the usermanager confirms the key.
validateAPIKey(apiKey) == apiKey = "good"

\* (mutant) the rate limit is checked before the API key.
AuthMiddleware_LimitFirst(path, apiKey) ==
    IF path = "/health" THEN "next" ELSE "limit"

\* AuthMiddleware up to the rate limit: /health goes straight to next, a missing
\* or invalid key is answered 401, everything else goes on to rls.AllowRequest.
AuthMiddleware(path, apiKey) ==
    IF path = "/health" THEN "next"
    ELSE IF apiKey = "" THEN "unauthorized"
    ELSE IF ~validateAPIKey(apiKey) THEN "unauthorized"
    ELSE "limit"

\* AuthMiddleware after rls.AllowRequest(userID) returned ok for request m.
AfterAllowRequest(m, ok) ==
    IF m.pc # "limit" THEN m
    ELSE IF ok THEN [m EXCEPT !.pc = "next", !.allowed = TRUE]
    ELSE [m EXCEPT !.pc = "done", !.status = StatusTooManyRequests]

\* NewTokenBucket(maxTokens, refillRate) at time t.
NewTokenBucket(t) == [tokens |-> maxTokens * TokenUnit, lastRefill |-> t]

\* (mutant) the refill is not capped at maxTokens.
Refill_NoCap(tb, t) == tb.tokens + (t - tb.lastRefill) * RefillPerTick

\* TokenBucket.AllowRequest: tokens += elapsed * refillRate, capped at maxTokens.
Refill(tb, t) ==
    LET tokens == tb.tokens + (t - tb.lastRefill) * RefillPerTick
    IN IF tokens > maxTokens * TokenUnit THEN maxTokens * TokenUnit ELSE tokens

\* TokenBucket.AllowRequest: does the check at time t admit the request?
Admits(tb, t) == Refill(tb, t) >= TokenUnit

\* TokenBucket.AllowRequest: the bucket after the check at time t.
AfterAllow(tb, t) ==
    [tokens |-> IF Admits(tb, t) THEN Refill(tb, t) - TokenUnit ELSE Refill(tb, t),
     lastRefill |-> t]

\* RateLimiterStore.AllowRequest: the map entry read under RLock.
LookupSees(t) == bucketOf

\* RateLimiterStore.AllowRequest, first part: RLock, read buckets[userID], RUnlock.
LimLookup(t) ==
    /\ lim[t].pc = "idle"
    /\ \A o \in LimThreads : o < t => lim[o].pc # "idle"
    /\ lim' = [lim EXCEPT ![t] = [pc |-> IF LookupSees(t) = 0 THEN "missing" ELSE "found",
                                  bucket |-> LookupSees(t)]]
    /\ UNCHANGED <<buckets, bucketOf, clock, admittedAt>>
    /\ UNCHANGED <<nodeVars, clusterVars, workerVars, ringVars, sessionVars, histVars, coordVars, mwVars>>

\* RateLimiterStore.AllowRequest, !exists: NewTokenBucket, Lock, store it, Unlock.
LimCreate(t) ==
    /\ lim[t].pc = "missing"
    /\ buckets' = Append(buckets, NewTokenBucket(clock))
    /\ bucketOf' = Len(buckets) + 1
    /\ lim' = [lim EXCEPT ![t].pc = "found", ![t].bucket = Len(buckets) + 1]
    /\ UNCHANGED <<clock, admittedAt>>
    /\ UNCHANGED <<nodeVars, clusterVars, workerVars, ringVars, sessionVars, histVars, coordVars, mwVars>>

\* bucket.AllowRequest() on the bucket this request holds, under the bucket's
\* mutex; the request is admitted or gets 429.
LimAllow(t) ==
    /\ lim[t].pc = "found"
    /\ LET b == lim[t].bucket
           ok == Admits(buckets[b], clock)
       IN /\ buckets' = [buckets EXCEPT ![b] = AfterAllow(buckets[b], clock)]
          /\ lim' = [lim EXCEPT ![t] = IdleLim]
          /\ admittedAt' = IF ok THEN [admittedAt EXCEPT ![clock] = @ + 1]
                           ELSE admittedAt
          /\ mw' = [mw EXCEPT ![t] = AfterAllowRequest(@, ok)]
    /\ UNCHANGED <<bucketOf, clock>>
    /\ UNCHANGED <<nodeVars, clusterVars, workerVars, ringVars, sessionVars, histVars, coordVars>>

\* time passes at the gateway.
ClockTick ==
    /\ clock < MaxClock
    /\ clock' = clock + 1
    /\ UNCHANGED <<buckets, bucketOf, lim, admittedAt>>
    /\ UNCHANGED <<nodeVars, clusterVars, workerVars, ringVars, sessionVars, histVars, coordVars, mwVars>>

\* a request arrives and runs AuthMiddleware up to the rate limit.
MwReceive(t) ==
    /\ mw[t].pc = "idle"
    /\ \E path \in Paths, apiKey \in ApiKeys :
          LET to == AuthMiddleware(path, apiKey)
              m == [IdleMw EXCEPT !.path = path, !.apiKey = apiKey]
          IN mw' = [mw EXCEPT ![t] =
                       IF to = "unauthorized"
                       THEN [m EXCEPT !.pc = "done", !.status = StatusUnauthorized]
                       ELSE [m EXCEPT !.pc = to, !.limited = (to = "limit")]]
    /\ UNCHANGED <<nodeVars, clusterVars, workerVars, limiterVars, ringVars, sessionVars, histVars, coordVars>>

\* rls.AllowRequest(userID) called from AuthMiddleware: one of its steps.
MwAllowRequest(t) ==
    /\ mw[t].pc = "limit"
    /\ \/ LimLookup(t)
       \/ LimCreate(t)
       \/ LimAllow(t)

\* next.ServeHTTP: the mux runs the handler of the route and the request is answered.
MwServe(t) ==
    /\ mw[t].pc = "next"
    /\ mw' = [mw EXCEPT ![t] = [@ EXCEPT !.pc = "done", !.status = StatusOK,
                                         !.served = TRUE]]
    /\ UNCHANGED <<nodeVars, clusterVars, workerVars, limiterVars, ringVars, sessionVars, histVars, coordVars>>

MwInit == mw = [t \in LimThreads |-> IdleMw]

LimiterInit ==
    /\ buckets = <<>>
    /\ bucketOf = 0
    /\ lim = [t \in LimThreads |-> IdleLim]
    /\ clock = 0
    /\ admittedAt = [t \in 0..MaxClock |-> 0]

(***************************************************************************)
(* hash ring: construction and membership changes                          *)
(***************************************************************************)
\* node lists handed to NewHashRing; the constructor takes any list as it is.
RingLists == {<<>>, <<"n1", "n2", "n3">>, <<"n1", "n1">>, <<"n2", "n4", "n2">>}

RingNodeSet == {RingNodes[i] : i \in 1..Len(RingNodes)}

\* every position a key can hash to.
KeyHashes == 0..(HashSpace - 1)

EmptyRing == [nodes |-> <<>>, virtualNodes |-> <<>>, sortedHashes |-> <<>>]

\* ring = NewHashRing(nodes)
RingNew ==
    \E nodes \in RingLists :
        /\ ring' = NewHashRing(nodes)
        /\ ringOp' = [op |-> "NewHashRing", node |-> "", before |-> EmptyRing]
        /\ UNCHANGED <<nodeVars, clusterVars, workerVars, limiterVars, sessionVars, histVars, coordVars, mwVars>>

\* ring.AddNode(node)
RingAddNode ==
    \E node \in RingNodeSet :
        /\ ring' = AddNode(ring, node)
        /\ ringOp' = [op |-> "AddNode", node |-> node, before |-> ring]
        /\ UNCHANGED <<nodeVars, clusterVars, workerVars, limiterVars, sessionVars, histVars, coordVars, mwVars>>

\* ring.RemoveNode(node)
RingRemoveNode ==
    \E node \in RingNodeSet :
        /\ ring' = RemoveNode(ring, node)
        /\ ringOp' = [op |-> "RemoveNode", node |-> node, before |-> ring]
        /\ UNCHANGED <<nodeVars, clusterVars, workerVars, limiterVars, sessionVars, histVars, coordVars, mwVars>>

RingInit ==
    /\ ring = NewHashRing(GatewayNodes)
    /\ ringOp = [op |-> "NewHashRing", node |-> "", before |-> EmptyRing]

(***************************************************************************)
(* a session: one client, one gateway request at a time                    *)
(***************************************************************************)
SessionClient == 1

NoGet == [key |-> "", status |-> 0, value |-> "", expected |-> "unknown"]

\* the node GetKey forwards to, and what comes back: the node's handleGet
\* answers 200 with the raw value or 404; without an answer the gateway says 503.
GetKey(key, reached) ==
    LET node == GetNode(GatewayRing, key)
        value == IF node \in Nodes THEN StorageGet(store[node], key, 0)
                 ELSE KeyNotFound
    IN IF ~reached \/ node \notin Nodes
       THEN [status |-> StatusServiceUnavailable, value |-> ""]
       ELSE IF value = KeyNotFound THEN [status |-> StatusNotFound, value |-> ""]
       ELSE [status |-> StatusOK, value |-> value]

\* what an answered PUT or DELETE lets the client expect from the next GET.
Promise(g) ==
    IF g.resp # StatusOK THEN "unknown"
    ELSE IF g.op = "SET" THEN g.value ELSE "absent"

\* the system has come to rest after the client's request: the handler has
\* answered, its goroutine has posted, the coordinator's calls have returned.
Quiescent(c) ==
    /\ gw[c].pc = "done"
    /\ gw[c].bg # "inflight"
    /\ sr[c].pending = {}
    /\ sr[c].pc # "loop"

\* the client's next PUT or DELETE.
SessionReceive ==
    /\ session.writes < MaxSessionWrites
    /\ GwReceive(SessionClient)

\* GET /v1/kv/{key} through the gateway while nothing else is in flight.
GwGet ==
    /\ gw[SessionClient].pc = "idle"
    /\ \E key \in Keys, reached \in BOOLEAN :
          LET r == GetKey(key, reached)
          IN session' = [session EXCEPT
                 !.get = [key |-> key, status |-> r.status, value |-> r.value,
                          expected |-> session.expect[key]]]
    /\ UNCHANGED <<nodeVars, clusterVars, workerVars, limiterVars, ringVars, histVars, coordVars, mwVars>>

\* the client has its answer and the system is at rest: the next request may come.
GwNext ==
    /\ Quiescent(SessionClient)
    /\ session' = [session EXCEPT
           !.expect[gw[SessionClient].key] = Promise(gw[SessionClient]),
           !.get = NoGet,
           !.writes = @ + 1]
    /\ gw' = [gw EXCEPT ![SessionClient] = IdleGw]
    /\ sr' = [sr EXCEPT ![SessionClient] = IdleSr]
    /\ UNCHANGED <<store, eventualQueue>>
    /\ UNCHANGED <<nodeVars, workerVars, limiterVars, ringVars, histVars, coordVars, mwVars>>

SessionInit ==
    session = [expect |-> [key \in Keys |-> "unknown"], get |-> NoGet,
               writes |-> 0]

(***************************************************************************)
(* Spec: one storage node serving one request at a time, with the clock,  *)
(* TTLs, the reaper and crash recovery.                                    *)
(***************************************************************************)
Init ==
    /\ NodeInit /\ ClusterInit /\ WorkerInit /\ LimiterInit /\ RingInit /\ SessionInit
    /\ HistInit /\ ReplicatorInit /\ MwInit

Next ==
    \/ HandlerStep(1, TTLParams)
    \/ cleanupExpired
    \/ Tick
    \/ CrashAndRestore

Spec == Init /\ [][Next]_vars

(***************************************************************************)
(* SpecConc: one storage node serving requests concurrently.  The clock   *)
(* stands still, so requests carry no ttl.                                 *)
(***************************************************************************)
NextConc ==
    \/ \E r \in Handlers : HandlerStep(r, {""})
    \/ CrashAndRestore

SpecConc == Init /\ [][NextConc]_vars

(***************************************************************************)
(* SpecRecover: a storage node whose WAL file can hold records that do not *)
(* decode, with crash recovery.                                            *)
(***************************************************************************)
NextRecover ==
    \/ HandlerStep(1, {""})
    \/ TornAppend(1)
    \/ GarbleRecord
    \/ CrashAndRestore

SpecRecover == Init /\ [][NextRecover]_vars

(***************************************************************************)
(* SpecCompact: the storage node of Spec whose WAL is also compacted.      *)
(***************************************************************************)
\* requests are served until the compaction; what is looked at afterwards is
\* the clock, the reaper and the crash.
ServeUntilCompaction ==
    /\ ~compaction.done
    /\ HandlerStep(1, TTLParams)

NextCompact ==
    \/ ServeUntilCompaction
    \/ cleanupExpired
    \/ Tick
    \/ CrashAndRestore
    \/ Truncate

SpecCompact == Init /\ [][NextCompact]_vars

(***************************************************************************)
(* SpecCoord: the replication coordinator serving POST /replicate sent to  *)
(* it directly, with any replica list.                                     *)
(***************************************************************************)
NextCoord ==
    \/ \E c \in Clients : DirectPost(c)
    \/ \E c \in Clients : ReplicaCall(c)
    \/ \E c \in Clients : StrongRead(c)
    \/ \E c \in Clients : StrongTimeout(c)

SpecCoord == Init /\ [][NextCoord]_vars

(***************************************************************************)
(* SpecFanout: one POST /replicate with every step of its fan-out          *)
(* goroutines: the call, the append to ackedNodes, the cancellation at the *)
(* handler's return.                                                       *)
(***************************************************************************)
NextFanout ==
    \/ DirectPost(1)
    \/ ReplicaCall(1)
    \/ appendAcked(1)
    \/ StrongRead(1)
    \/ StrongTimeout(1)
    \/ CancelledCall(1)

SpecFanout == Init /\ [][NextFanout]_vars

(***************************************************************************)
(* SpecCluster: two clients writing through the gateway.                   *)
(***************************************************************************)
NextCluster ==
    \/ \E c \in Clients : GwReceive(c)
    \/ \E c \in Clients : GwPrimary(c)
    \/ \E c \in Clients : GwPost(c)
    \/ \E c \in Clients : GwAnswer(c)
    \/ \E c \in Clients : GwTimeout(c)
    \/ \E c \in Clients : BgPost(c)
    \/ \E c \in Clients : ReplicaCall(c)
    \/ \E c \in Clients : StrongRead(c)
    \/ \E c \in Clients : StrongTimeout(c)

SpecCluster == Init /\ [][NextCluster]_vars

(***************************************************************************)
(* SpecEventual: eventual POST /replicate, the workers and the retry path. *)
(* SpecEventualFair adds that every goroutine that can run does run.       *)
(***************************************************************************)
NextEventual ==
    \/ \E c \in Clients : EventualPost(c)
    \/ \E w \in EventualWorkers : eventualWorker(w)
    \/ retryWorker
    \/ \E w \in Workers : replicateToNode(w)
    \/ \E w \in Workers : loadMaxLag(w, {0})
    \/ \E w \in Workers : finishAttempt(w)
    \/ retrySend

SpecEventual == Init /\ [][NextEventual]_vars

EventualFairness ==
    /\ \A w \in EventualWorkers : WF_vars(eventualWorker(w))
    /\ WF_vars(retryWorker)
    /\ \A w \in Workers : WF_vars(replicateToNode(w))
    /\ \A w \in Workers : WF_vars(loadMaxLag(w, {0}))
    /\ \A w \in Workers : WF_vars(finishAttempt(w))
    /\ WF_vars(retrySend)

SpecEventualFair == SpecEventual /\ EventualFairness

(***************************************************************************)
(* SpecMetrics: the eventual path with attempts that measure a lag.        *)
(* SpecStop: the eventual path with Replicator.Stop.                       *)
(***************************************************************************)
\* the lags an attempt can measure, in units of the model's clock.
Lags == {0, 1, 2}

NextMetrics ==
    \/ \E c \in Clients : EventualPost(c)
    \/ \E w \in EventualWorkers : eventualWorker(w)
    \/ retryWorker
    \/ \E w \in Workers : replicateToNode(w)
    \/ \E w \in Workers : loadMaxLag(w, Lags)
    \/ \E w \in Workers : finishAttempt(w)
    \/ retrySend

SpecMetrics == Init /\ [][NextMetrics]_vars

NextStop ==
    \/ \E c \in Clients : EventualPost(c)
    \/ \E w \in EventualWorkers : eventualWorker(w)
    \/ retryWorker
    \/ \E w \in Workers : replicateToNode(w)
    \/ \E w \in Workers : loadMaxLag(w, {0})
    \/ \E w \in Workers : finishAttempt(w)
    \/ retrySend
    \/ Stop
    \/ \E w \in Workers : workerExit(w)
    \/ retryAbandon

SpecStop == Init /\ [][NextStop]_vars

(***************************************************************************)
(* SpecLimiter: one user's requests passing the gateway's rate limiter.    *)
(***************************************************************************)
NextLimiter ==
    \/ \E t \in LimThreads : LimLookup(t)
    \/ \E t \in LimThreads : LimCreate(t)
    \/ \E t \in LimThreads : LimAllow(t)
    \/ ClockTick

SpecLimiter == Init /\ [][NextLimiter]_vars

(***************************************************************************)
(* SpecGateway: requests of one user passing the gateway's middleware.     *)
(***************************************************************************)
NextGateway ==
    \/ \E t \in LimThreads : MwReceive(t)
    \/ \E t \in LimThreads : MwAllowRequest(t)
    \/ \E t \in LimThreads : MwServe(t)
    \/ ClockTick

SpecGateway == Init /\ [][NextGateway]_vars

(***************************************************************************)
(* SpecRing: a hash ring built by NewHashRing and changed by AddNode and   *)
(* RemoveNode.                                                             *)
(***************************************************************************)
NextRing ==
    \/ RingNew
    \/ RingAddNode
    \/ RingRemoveNode

SpecRing == Init /\ [][NextRing]_vars

(***************************************************************************)
(* SpecSession: one client's PUT, DELETE and GET requests through the      *)
(* gateway, each sent after the system has come to rest; nodes and the     *)
(* coordinator may still fail any call.                                    *)
(***************************************************************************)
NextSession ==
    \/ SessionReceive
    \/ GwPrimary(SessionClient)
    \/ GwPost(SessionClient)
    \/ GwAnswer(SessionClient)
    \/ GwTimeout(SessionClient)
    \/ BgPost(SessionClient)
    \/ ReplicaCall(SessionClient)
    \/ StrongRead(SessionClient)
    \/ StrongTimeout(SessionClient)
    \/ GwGet
    \/ GwNext

SpecSession == Init /\ [][NextSession]_vars

(***************************************************************************)
(* Claims about the storage node                                           *)
(***************************************************************************)

\* handler r sends its response in this step (a crash frees the slot with no response).
Responds(r) == req[r].pc # "idle" /\ req'[r].pc = "idle" /\ req'[r].resp # 0

\* the WAL holds a record of handler r's mutation: same operation, key, value, ttl.
Logged(r) ==
    \E i \in 1..Len(wal) :
        /\ wal[i].op = req[r].op
        /\ wal[i].key = req[r].key
        /\ wal[i].value = req[r].value
        /\ wal[i].ttl = req[r].ttl

\* C1: whenever a request handler changes the in-memory map, or acknowledges
\* its PUT or DELETE with 200, the WAL already holds (appended and synced before
\* that step) a record with the same operation, key and value.
C1_WalBeforeMemory ==
    [][\A r \in Handlers :
          (Responds(r) /\ (data' # data \/ req'[r].resp = StatusOK)) => Logged(r)]_vars

\* C1 witness: a handler has acknowledged a PUT whose value is in the map and in the WAL.
C1_Witness ==
    \E r \in Handlers, k \in DOMAIN data :
        /\ req[r].resp = StatusOK
        /\ \E i \in 1..Len(wal) :
              wal[i].op = "SET" /\ wal[i].key = k /\ wal[i].value = data[k].value

\* what GET must return at time t by the history of the key: the value of the
\* last SET applied if no DELETE followed it and its deadline T+D is not before t.
ExpectedGet(k, t) ==
    IF ~lastPut[k].set THEN KeyNotFound
    ELSE IF lastPut[k].deadline # NoExpiry /\ lastPut[k].deadline < t THEN KeyNotFound
    ELSE lastPut[k].value

\* C2: after a sequence of PUT/DELETE requests that each returned 200 (each
\* logged and applied at one instant), a crash followed by WAL.Restore at time R
\* leaves a map on which GET of every key returns what the never-crashed node
\* would return at R.
C2_RestoreEqualsHistory ==
    [][(CrashAndRestore /\ ~failed' /\ ~skewed) =>
          \A k \in Keys : StorageGet(data', k, now') = ExpectedGet(k, now)]_vars

\* C3: a request whose WAL append fails is answered 500, and no step of a
\* handler that answers 500 changes the in-memory map.
C3_WalFailureLeavesMap ==
    [][\A r \in Handlers :
          /\ (req[r].pc = "recv" /\ Responds(r)) =>
                (req'[r].resp = StatusInternalServerError /\ data' = data)
          /\ ( /\ req[r].pc # "idle"
               /\ req'[r] # req[r]
               /\ (req[r].resp = StatusInternalServerError
                     \/ req'[r].resp = StatusInternalServerError) ) => data' = data]_vars

\* C3 witness: a request was answered 500 while the map holds an entry.
C3_Witness ==
    /\ data # <<>>
    /\ \E r \in Handlers : req[r].pc = "idle" /\ req[r].resp = StatusInternalServerError

\* C4: once all requests have finished (none failed, no record of an
\* unacknowledged request in the WAL), GET of every key on the in-memory map
\* returns what it returns on the map obtained by replaying the WAL.
C4_MemoryEqualsWalReplay ==
    ((\A r \in Handlers : req[r].pc = "idle") /\ ~failed) =>
        \A k \in Keys :
            StorageGet(data, k, now) = StorageGet(WALRestore(wal, <<>>, now), k, now)

\* C5: on a running node, a key last written with TTL=D at time T is returned
\* by GET at every time < T+D and is not found at every time >= T+D.
C5_TTLVisibility ==
    \A k \in Keys :
        (lastPut[k].set /\ ~lastPut[k].crashed /\ lastPut[k].deadline # NoExpiry) =>
            IF now < lastPut[k].deadline
            THEN StorageGet(data, k, now) = lastPut[k].value
            ELSE StorageGet(data, k, now) = KeyNotFound

(***************************************************************************)
(* Claims about the gateway and the replication coordinator                *)
(***************************************************************************)

\* handler g got an answer from the primary that lets it go on to replication.
PrimaryOk(g) == g.primStatus = StatusOK

\* an HTTP status in the 2xx class.
Is2xx(status) == status >= 200 /\ status <= 299

\* C6: for a strong PUT or DELETE with a non-empty replica set whose
\* POST /replicate the coordinator answered, the gateway's answer to the client
\* is 200 only if the coordinator answered 2xx and more than half of the replicas
\* acknowledged, and it is the coordinator's status when that status is not 2xx.
C6_StrongAnswerFollowsCoordinator ==
    \A c \in Clients :
       LET g == gw[c]
       IN (/\ g.consistency = "strong"
           /\ Len(g.replicas) > 0
           /\ PrimaryOk(g)
           /\ g.resp # 0
           /\ g.coordStatus >= 100)
          => /\ g.resp = (IF Is2xx(g.coordStatus) THEN StatusOK ELSE g.coordStatus)
             /\ g.resp = StatusOK =>
                   2 * Cardinality(sr[c].acked) > Len(g.replicas)

\* C7: a strong POST /replicate with N replica_nodes is answered 200 only when
\* at least floor(N/2)+1 of them had answered 2xx when the response was written.
C7_QuorumBehind200 ==
    \A c \in Clients :
       (sr[c].replicas # <<>> /\ sr[c].status = StatusOK)
          => Cardinality(sr[c].acked) >= (Len(sr[c].replicas) \div 2) + 1

\* C7 witness: 200 for N=2 with both replicas acknowledged, and 200 for N=3 on
\* two acknowledgements while the third call is still open.
C7_Witness ==
    /\ sr[1].status = StatusOK /\ Len(sr[1].replicas) = 2 /\ sr[1].acked = {1, 2}
    /\ sr[2].status = StatusOK /\ Len(sr[2].replicas) = 3
    /\ Cardinality(sr[2].acked) = 2 /\ sr[2].pending # {}

\* both clients' strong PUTs of different values to one key have answered 200,
\* their coordinators answered 200, and no call of either request is still open.
BothStrongPutsDone(key) ==
    /\ \A c \in Clients :
          /\ gw[c].pc = "done" /\ gw[c].op = "SET" /\ gw[c].key = key
          /\ gw[c].consistency = "strong"
          /\ gw[c].resp = StatusOK /\ gw[c].coordStatus = StatusOK
          /\ sr[c].pc = "returned" /\ sr[c].pending = {}
    /\ gw[1].value # gw[2].value

\* C8: once two concurrent strong PUTs of different values to one key have both
\* been answered 200 and have completed, the primary and every replica hold the
\* same value for the key.
C8_StrongPutsConverge ==
    \A key \in Keys :
       BothStrongPutsDone(key) =>
          \A n \in Nodes :
             StorageGet(store[n], key, 0) = StorageGet(store[gw[1].primary], key, 0)

\* the primary write of handler g failed: no response, or a non-2xx status other
\* than a DELETE's 404.
PrimaryWriteFailed(g) ==
    \/ g.primStatus = Unreachable
    \/ /\ g.primStatus >= 100
       /\ ~Is2xx(g.primStatus)
       /\ ~(g.op = "DELETE" /\ g.primStatus = StatusNotFound)

\* C9: when the primary write failed, no POST /replicate is sent for the request
\* (neither by the handler nor in the background, and the coordinator never
\* serves one), and the client gets the primary's status and body, or the
\* gateway's 503 when the primary was unreachable.
C9_NoReplicationAfterPrimaryFailure ==
    \A c \in Clients :
       PrimaryWriteFailed(gw[c]) =>
          /\ ~gw[c].dispatched
          /\ gw[c].bg = "none"
          /\ sr[c].pc = "off"
          /\ gw[c].pc = "done"
          /\ gw[c].resp = (IF gw[c].primStatus = Unreachable
                           THEN StatusServiceUnavailable ELSE gw[c].primStatus)
          /\ gw[c].body = (IF gw[c].primStatus = Unreachable
                           THEN "gateway" ELSE "primary")

\* C9 witness: one request ended with the primary's 500, another with 503 for an
\* unreachable primary.
C9_Witness ==
    /\ gw[1].primStatus = StatusInternalServerError
    /\ gw[1].resp = StatusInternalServerError
    /\ gw[2].primStatus = Unreachable
    /\ gw[2].resp = StatusServiceUnavailable

\* C10: an eventual PUT/DELETE that the primary answered 200 is answered 200 to
\* the client as soon as the primary's answer is in, while POST /replicate is
\* still to be sent, and stays 200 whatever becomes of that POST.
C10_EventualAnswerIgnoresCoordinator ==
    \A c \in Clients :
       (gw[c].consistency = "eventual" /\ PrimaryOk(gw[c]))
          => /\ gw[c].pc = "done"
             /\ gw[c].resp = StatusOK
             /\ gw[c].coordStatus = 0

\* C10 witness: both clients were answered 200; the background POST of one took
\* the last place in the queue, the other's came back 503 from the full queue.
C10_Witness ==
    \E c, d \in Clients :
       /\ gw[c].consistency = "eventual" /\ gw[c].resp = StatusOK
       /\ gw[c].bgStatus = StatusServiceUnavailable
       /\ gw[d].consistency = "eventual" /\ gw[d].resp = StatusOK
       /\ gw[d].bgStatus = StatusAccepted

(***************************************************************************)
(* Claims about the eventual queue, the workers and retries                *)
(***************************************************************************)

\* every task the coordinator holds: queued, backing off, or in a worker's hands.
TasksInSystem ==
    Range(eventualQueue) \cup Range(retryQueue) \cup backoff
       \cup {worker[w].task : w \in {o \in Workers : worker[o].busy}}

TasksOf(c) == {t \in TasksInSystem : t.request.user = c}

\* client c's eventual POST /replicate is answered in this step.
EventualAnswered(c) == sr[c].pc = "off" /\ sr'[c].pc = "returned"

\* this step puts a fresh task of client c at the tail of the eventual queue.
EnqueuedFor(c) ==
    /\ Len(eventualQueue') = Len(eventualQueue) + 1
    /\ SubSeq(eventualQueue', 1, Len(eventualQueue)) = eventualQueue
    /\ eventualQueue'[Len(eventualQueue')].request.user = c
    /\ eventualQueue'[Len(eventualQueue')].retries = 0

\* C11: the eventual queue never holds more than its capacity; an eventual
\* POST /replicate is answered in the step it arrives, 202 exactly when its task
\* was enqueued and 503 exactly when the queue was full, and then the queue is
\* unchanged and no replica is ever contacted for the request.
C11_BoundedQueueBackpressure ==
    /\ [](Len(eventualQueue) <= QueueCap)
    /\ [](\A c \in Clients :
             fate[c].at = "rejected" => (c \notin contacted /\ TasksOf(c) = {}))
    /\ [][\A c \in Clients :
             EventualAnswered(c) =>
                /\ sr'[c].status \in {StatusAccepted, StatusServiceUnavailable}
                /\ sr'[c].status = StatusAccepted <=> EnqueuedFor(c)
                /\ sr'[c].status = StatusServiceUnavailable
                      <=> Len(eventualQueue) = QueueCap
                /\ sr'[c].status = StatusServiceUnavailable
                      => eventualQueue' = eventualQueue]_vars

\* C11 witness: one request was accepted with 202, the next one met the full
\* queue and was answered 503; later a replica was contacted for the first.
C11_Witness ==
    /\ fate[2].at = "rejected" /\ sr[2].status = StatusServiceUnavailable
    /\ fate[1].at = "accepted" /\ sr[1].status = StatusAccepted
    /\ 1 \in contacted

\* C12: with every goroutine of the coordinator running and every replica call
\* returning, a task accepted with 202 eventually leaves the system, after an
\* attempt in which all replicas acked or after its retries are used up.
C12_AcceptedTaskLeaves ==
    \A c \in Clients :
       (fate[c].at = "accepted") ~> (fate[c].at \in {"done", "dropped"} /\ TasksOf(c) = {})

\* C12 witness: one task ended with all replicas acked, another was dropped
\* after MaxRetries retries.
C12_Witness ==
    /\ fate[1].at = "done" /\ 1 \in contacted
    /\ fate[2].at = "dropped"
    /\ TasksInSystem = {}

\* C13: when the task of an eventual SET has left the system, every replica
\* that failed the first attempt and was up during one of the retries has
\* stored the task's value in some attempt.
C13_RetryReachesReplica ==
    \A c \in Clients :
       (fate[c].op = "SET" /\ fate[c].at \in {"done", "dropped"})
          => fate[c].owed = {}

\* this step ends an attempt of worker w.
AttemptEnds(w) == worker[w].busy /\ ~worker'[w].busy

\* C14: Retries never exceeds MaxRetries = 3; the end of an attempt adds a task
\* to the retry path only if the attempt failed with Retries < 3, with Retries
\* one higher; a task in the eventual queue has Retries = 0; a task that was
\* dropped or is done is nowhere in the system.
C14_RetriesBounded ==
    /\ [](\A t \in TasksInSystem : t.retries >= 0 /\ t.retries <= 3)
    /\ [](\A t \in Range(eventualQueue) : t.retries = 0)
    /\ [](\A c \in Clients : fate[c].at \in {"done", "dropped"} => TasksOf(c) = {})
    /\ [][\A w \in Workers :
             AttemptEnds(w) =>
                LET t == worker[w].task
                    n == Len(t.request.replicas)
                IN /\ backoff' \ backoff \subseteq {[t EXCEPT !.retries = t.retries + 1]}
                   /\ backoff' # backoff =>
                         (t.retries < 3 /\ worker[w].successCount < n)
                   /\ (t.retries = 3 /\ worker[w].successCount < n) =>
                         (backoff' = backoff /\ fate'[t.request.user].at = "dropped")
                   /\ eventualQueue' = eventualQueue /\ retryQueue' = retryQueue]_vars

\* C14 witness: a task is dropped at the end of its fourth attempt, Retries = 3.
C14_Witness ==
    \E c \in Clients :
       /\ fate[c].at = "dropped"
       /\ \E d \in Clients : \E t \in TasksOf(d) : t.retries = 3

(***************************************************************************)
(* Claims about the rate limiter                                           *)
(***************************************************************************)

\* the number of requests of the user admitted at the instants t1..t2.
RECURSIVE AdmittedIn(_, _)
AdmittedIn(t1, t2) ==
    IF t1 > t2 THEN 0 ELSE admittedAt[t1] + AdmittedIn(t1 + 1, t2)

\* C15: in any window of length W >= capacity/refill_rate the limiter admits at
\* most capacity + refill_rate x W requests of the user, and of requests sent
\* back to back at one instant it admits at most capacity, however the
\* user's requests interleave.
C15_RateLimitUpperBound ==
    /\ \A t \in 0..MaxClock : admittedAt[t] <= maxTokens
    /\ \A t1 \in 0..MaxClock, t2 \in 0..MaxClock :
          (t1 <= t2 /\ (t2 - t1) * RefillPerTick >= maxTokens * TokenUnit)
             => AdmittedIn(t1, t2) * TokenUnit
                   <= maxTokens * TokenUnit + RefillPerTick * (t2 - t1)

\* this step is the admission check of request t against the bucket it holds.
Checks(t) == lim[t].pc = "found" /\ lim'[t].pc = "idle"

\* C16: every bucket keeps 0 <= tokens <= capacity; an admission check refills
\* to min(capacity, tokens + elapsed x refill_rate) and in the same step takes
\* exactly one token and admits when the refilled amount is at least one
\* token, and takes nothing and rejects otherwise.
C16_TokenBucketInvariant ==
    /\ [](\A b \in 1..Len(buckets) :
             buckets[b].tokens >= 0 /\ buckets[b].tokens <= maxTokens * TokenUnit)
    /\ [][\A t \in LimThreads :
             Checks(t) =>
                LET b == lim[t].bucket
                    sum == buckets[b].tokens
                              + (clock - buckets[b].lastRefill) * RefillPerTick
                    refilled == IF sum < maxTokens * TokenUnit
                                THEN sum ELSE maxTokens * TokenUnit
                IN IF refilled >= TokenUnit
                   THEN /\ buckets'[b].tokens = refilled - TokenUnit
                        /\ admittedAt'[clock] = admittedAt[clock] + 1
                   ELSE /\ buckets'[b].tokens = refilled
                        /\ admittedAt' = admittedAt]_vars

\* C16 witness: a bucket was emptied at instant 0, rejected a request at instant
\* 1 while holding half a token, and admitted one at instant 2.
C16_Witness ==
    /\ Len(buckets) = 1
    /\ admittedAt[0] = 1 /\ admittedAt[1] = 0 /\ admittedAt[2] = 1
    /\ buckets[1].tokens = 0 /\ buckets[1].lastRefill = 2

(***************************************************************************)
(* Claims about the hash ring                                              *)
(***************************************************************************)
\* the k values LocateKey is asked for: below, at and above the ring's size.
LocateCounts == 1..(Len(RingNodes) + 1)

Min(a, b) == IF a < b THEN a ELSE b

\* the owners of the ring's points in clockwise order from keyHash, wrapping.
ClockwiseOwners(hr, keyHash) ==
    LET len == Len(hr.sortedHashes)
        start == SearchHashes(hr.sortedHashes, keyHash)
    IN [j \in 1..len |->
           VirtualNode(hr, hr.sortedHashes[((start - 1 + j - 1) % len) + 1])]

\* a sequence without the repetitions of earlier elements.
RECURSIVE FirstDistinct(_)
FirstDistinct(seq) ==
    IF seq = <<>> THEN <<>>
    ELSE LET front == FirstDistinct(SubSeq(seq, 1, Len(seq) - 1))
             x == seq[Len(seq)]
         IN IF SeqContains(front, x) THEN front ELSE Append(front, x)

PhysicalNodes(hr) == {GetAllNodes(hr)[i] : i \in 1..Len(GetAllNodes(hr))}

LocateContract(hr, keyHash, k) ==
    LET result == LocateHash(hr, keyHash, k)
        size == Min(k, Cardinality(PhysicalNodes(hr)))
    IN /\ result # Diverges
       /\ Len(result) = size
       /\ \A i, j \in 1..Len(result) : result[i] = result[j] => i = j
       /\ \A i \in 1..Len(result) : result[i] \in PhysicalNodes(hr)
       /\ result = SubSeq(FirstDistinct(ClockwiseOwners(hr, keyHash)), 1, size)

\* C17: on every ring reachable through NewHashRing, AddNode and RemoveNode, for
\* every key position and every k >= 1, LocateKey returns exactly min(k, |nodes|)
\* pairwise distinct members of the physical node set, and they are the first
\* distinct nodes met walking clockwise from the key's hash with wrap-around.
\* (LocateKey only reads the ring, so repeated calls on an unchanged ring agree.)
C17_LocateKeyContract ==
    \A keyHash \in KeyHashes : \A k \in LocateCounts :
        LocateContract(ring, keyHash, k)

SameLocate(hr1, hr2) ==
    \A keyHash \in KeyHashes : \A k \in LocateCounts :
        LocateHash(hr1, keyHash, k) = LocateHash(hr2, keyHash, k)

\* C18: AddNode and RemoveNode are idempotent. From every reachable ring and for
\* every node n (on the ring or not), AddNode(n) applied twice gives the same
\* nodes, virtual points and LocateKey results as AddNode(n) applied once, and
\* the same for RemoveNode(n); and a ring that AddNode(n) or RemoveNode(n) has
\* just produced is left as it is by the same call again.
C18_AddRemoveIdempotent ==
    /\ \A n \in RingNodeSet :
          /\ AddNode(AddNode(ring, n), n) = AddNode(ring, n)
          /\ SameLocate(AddNode(AddNode(ring, n), n), AddNode(ring, n))
          /\ RemoveNode(RemoveNode(ring, n), n) = RemoveNode(ring, n)
          /\ SameLocate(RemoveNode(RemoveNode(ring, n), n), RemoveNode(ring, n))
    /\ ringOp.op = "AddNode" => AddNode(ring, ringOp.node) = ring
    /\ ringOp.op = "RemoveNode" => RemoveNode(ring, ringOp.node) = ring

\* a node that was removed and is absent is removed again, on a ring that still
\* holds other nodes, one of them added by AddNode.
C18_Witness ==
    /\ ringOp.op = "RemoveNode"
    /\ ~SeqContains(ringOp.before.nodes, ringOp.node)
    /\ SeqContains(ring.nodes, "n4")
    /\ Len(ring.nodes) >= 2

\* C19: adding or removing one node re-maps only that node's arcs. After
\* AddNode(n) every key's primary (GetNode) is its primary before the call or n;
\* after RemoveNode(n) every key whose primary was not n keeps its primary.
C19_MinimalDisruption ==
    /\ ringOp.op = "AddNode" =>
          \A keyHash \in KeyHashes :
              GetNodeAt(ring, keyHash) \in
                  {GetNodeAt(ringOp.before, keyHash), ringOp.node}
    /\ ringOp.op = "RemoveNode" =>
          \A keyHash \in KeyHashes :
              GetNodeAt(ringOp.before, keyHash) # ringOp.node =>
                  GetNodeAt(ring, keyHash) = GetNodeAt(ringOp.before, keyHash)

\* a node was removed from a ring of several nodes: some keys lost their primary
\* to another node, others kept theirs.
C19_Witness ==
    /\ ringOp.op = "RemoveNode"
    /\ Len(ring.nodes) >= 2
    /\ \E keyHash \in KeyHashes :
          /\ GetNodeAt(ringOp.before, keyHash) = ringOp.node
          /\ GetNodeAt(ring, keyHash) # ringOp.node
    /\ \E keyHash \in KeyHashes : GetNodeAt(ringOp.before, keyHash) # ringOp.node

(***************************************************************************)
(* Claims about the gateway's read path                                    *)
(***************************************************************************)
\* the GET recorded in the session got an answer from the storage node.
GetAnswered == session.get.status \in {StatusOK, StatusNotFound}

\* C20: with one request at a time and the gateway's ring unchanged, the node a
\* PUT or DELETE writes to (LocateKey(key, 3)[0]) is the node GetKey reads from
\* (GetNode(key)); a GET that the node answers after a PUT(k, v) that returned
\* 200 returns 200 with v, and after a DELETE(k) that returned 200 it returns 404.
C20_ReadYourWrite ==
    /\ \A c \in Clients :
          gw[c].primary # "" => gw[c].primary = GetNode(GatewayRing, gw[c].key)
    /\ GetAnswered /\ session.get.expected \in Values =>
          /\ session.get.status = StatusOK
          /\ session.get.value = session.get.expected
    /\ GetAnswered /\ session.get.expected = "absent" =>
          session.get.status = StatusNotFound

\* a key was PUT with 200 and replicated, then deleted with 200, and the GET
\* after that is answered 404 while a replica still holds the value.
C20_Witness ==
    /\ session.get.expected = "absent"
    /\ session.get.status = StatusNotFound
    /\ \E n \in Nodes : StorageGet(store[n], session.get.key, 0) \in Values

(***************************************************************************)
(* Claims about the storage node's answers and its recovery                *)
(***************************************************************************)
\* handleGet: 404 on the error of Storage.Get, else 200 with the value.
handleGet(m, key, t) ==
    IF StorageGet(m, key, t) = KeyNotFound THEN StatusNotFound ELSE StatusOK

\* the key holds an entry whose expiry, if it has one, has not passed at t
\* (the entry may or may not have been reaped had it expired).
LiveEntry(m, key, t) ==
    key \in DOMAIN m /\ (m[key].expiresAt = NoExpiry \/ ~(m[key].expiresAt < t))

\* handler r answers a DELETE from the map in this step.
DeleteAnswers(r) ==
    /\ req[r].pc = "appended"
    /\ req[r].op = "DELETE"
    /\ req'[r].pc = "idle"
    /\ req'[r].resp \in {StatusOK, StatusNotFound}

\* C21: on a storage node GET and DELETE answer 200 exactly when the key holds a
\* live, non-expired entry, and 404 when the key is absent or its entry has
\* expired, whether or not the reaper has removed the entry yet.
C21_NotFoundWhenAbsentOrExpired ==
    /\ [](\A k \in Keys :
             handleGet(data, k, now) = IF LiveEntry(data, k, now)
                                       THEN StatusOK ELSE StatusNotFound)
    /\ [][\A r \in Handlers :
             DeleteAnswers(r) =>
                req'[r].resp = IF LiveEntry(data, req[r].key, now)
                               THEN StatusOK ELSE StatusNotFound]_vars

\* handler r holds a PUT whose ttl parameter is there and is not a duration.
UnparseableTTL(r) ==
    /\ req[r].pc # "idle"
    /\ req[r].op = "SET"
    /\ req[r].param # ""
    /\ ParseDuration(req[r].param).err

\* C22: a PUT whose ttl parameter cannot be parsed as a duration is answered 400
\* and changes nothing: no step of its handler writes the WAL or the map.
C22_UnparseableTTLRejected ==
    [][\A r \in Handlers :
          (UnparseableTTL(r) /\ req'[r] # req[r] /\ ~CrashAndRestore) =>
              /\ wal' = wal
              /\ data' = data
              /\ req'[r].pc = "idle"
              /\ req'[r].resp = StatusBadRequest]_vars

\* the ttl values a replicated SET can carry, in clock ticks (0: none).
ReplicatedTTLs == {handlePutTTL(ttlStr) : ttlStr \in TTLParams}

\* C23: on every reachable map, applying the same SET (same key, value and ttl)
\* now and once more at any later time leaves the map, expiry instants included,
\* as the first application left it; the same for applying a DELETE twice.
C23_ReplicatedWriteIdempotent ==
    \A key \in Keys : \A later \in now..MaxTime :
        /\ \A value \in Values, ttl \in ReplicatedTTLs :
              StorageSet(StorageSet(data, key, value, ttl, now), key, value, ttl, later)
                 = StorageSet(data, key, value, ttl, now)
        /\ StorageDelete(StorageDelete(data, key), key) = StorageDelete(data, key)

\* C24: after a compaction (WAL.Truncate, with no request in flight), a crash
\* and the recovery that follows, every entry that was live at compaction time
\* and has not expired since is in the map again with its value, as long as
\* nothing was logged after the compaction.
C24_CompactionKeepsLiveEntries ==
    [][(CrashAndRestore /\ compaction.done /\ compaction.quiet /\ wal = <<>>) =>
          \A k \in DOMAIN compaction.live :
              ~EntryExpired(compaction.live[k], now) =>
                  StorageGet(data', k, now') = compaction.live[k].value]_vars

\* a SET with a TTL stands for key k, was acknowledged, and the node has crashed
\* and recovered since.
RecoveredTTLEntry(k) ==
    /\ lastPut[k].set
    /\ lastPut[k].crashed
    /\ lastPut[k].deadline # NoExpiry
    /\ ~failed

\* C25: a key written with TTL=D at time T is not returned by GET once T+D has
\* passed, also when the node crashed and recovered in between: the entry that
\* recovery restores carries the absolute expiry T+D of the original write, not
\* a TTL counted again from the recovery.
C25_RecoveryKeepsExpiry ==
    \A k \in Keys :
        RecoveredTTLEntry(k) =>
            /\ now > lastPut[k].deadline => StorageGet(data, k, now) = KeyNotFound
            /\ (k \in DOMAIN data /\ data[k].value = lastPut[k].value) =>
                  data[k].expiresAt = lastPut[k].deadline

(***************************************************************************)
(* Claims about retried replication                                        *)
(***************************************************************************)
\* worker w makes the next replica call of its attempt in this step.
ReplicaCalled(w) ==
    /\ worker[w].busy
    /\ worker'[w].busy
    /\ worker'[w].idx = worker[w].idx + 1

\* the replica that worker w is about to call acknowledged the task in an
\* earlier attempt.
AckedEarlier(w) ==
    /\ worker[w].task.retries >= 1
    /\ worker[w].idx \notin fate[worker[w].task.request.user].debt

\* C26: a retry calls all replicas of its task again, and the call to a replica
\* that acknowledged the task in an earlier attempt leaves that replica as it
\* was just before the call, whatever other tasks for the key did in between.
C26_RetryLeavesAckedReplica ==
    [][\A w \in Workers :
          (ReplicaCalled(w) /\ AckedEarlier(w)) =>
              LET r == worker[w].task.request
                  node == r.replicas[worker[w].idx]
              IN StorageGet(store'[node], r.key, 0) = StorageGet(store[node], r.key, 0)]_vars

\* C27: a retry of a task that some replica acknowledged in an earlier attempt,
\* in which every replica is reachable and answers, ends with all replicas
\* acked and schedules no further retry: a replica that applied the task's SET
\* or DELETE before acknowledges it again.
C27_RetryAckedAgain ==
    [][\A w \in Workers :
          ( /\ AttemptEnds(w)
            /\ worker[w].task.retries >= 1
            /\ \E i \in 1..Len(worker[w].task.request.replicas) :
                  i \notin fate[worker[w].task.request.user].debt
            /\ ~worker[w].hard ) =>
              /\ worker[w].successCount = Len(worker[w].task.request.replicas)
              /\ backoff' = backoff
              /\ fate'[worker[w].task.request.user].at = "done"]_vars

\* C28: failures are classified before retrying. An attempt is followed by
\* another one only if one of its calls met a transport error or a 5xx answer;
\* a task whose failed replicas all answered 4xx is not scheduled again.
C28_OnlyRetryableFailuresRetried ==
    [][\A w \in Workers :
          (AttemptEnds(w) /\ backoff' # backoff) => worker[w].hard]_vars

\* C29: recovery skips a record that cannot be decoded and applies every
\* decodable record of the file, also those after it, in file order: the map
\* after recovery is the one obtained from the file's decodable records alone.
\* (Recovery ends: every Decode consumes bytes of a finite file.)
C29_RecoverySkipsUndecodable ==
    [][CrashAndRestore =>
          data' = WALRestore(SelectSeq(wal, Decodable), <<>>, now)]_vars

(***************************************************************************)
(* Claims about the answer to a strong POST /replicate                     *)
(***************************************************************************)
\* sr[c] serves or has served a strong POST /replicate.
StrongRequest(s) == s.op # "NONE"

\* the acknowledgements the handler has counted once it has taken the result
\* at the head of the channel.
CountedAfterRead(s) == s.ackedCount + (IF Head(s.results) THEN 1 ELSE 0)

\* the step in which handler c writes its response and returns writes 200 on
\* the acknowledgement that completes the quorum, 500 on the last of the N
\* results with fewer than the quorum counted, 408 with the quorum not reached
\* and results still outstanding; with no replica at all it writes 500.
StrongAnswerDetermined(c) ==
    LET s == sr[c]
        t == sr'[c]
        totalNodes == Len(t.replicas)
        quorum == (totalNodes \div 2) + 1
    IN (s.pc # "returned" /\ t.pc = "returned" /\ StrongRequest(t)) =>
          /\ t.status \in {StatusOK, StatusRequestTimeout, StatusInternalServerError}
          /\ s.pc = "off" => (totalNodes = 0 /\ t.status = StatusInternalServerError)
          /\ t.status = StatusOK =>
                /\ s.pc = "loop" /\ s.results # <<>> /\ Head(s.results)
                /\ CountedAfterRead(s) = quorum
          /\ t.status = StatusInternalServerError =>
                \/ totalNodes = 0
                \/ /\ s.pc = "loop" /\ s.results # <<>>
                   /\ s.i + 1 = totalNodes
                   /\ CountedAfterRead(s) < quorum
          /\ t.status = StatusRequestTimeout =>
                /\ s.pc = "loop"
                /\ s.ackedCount < quorum
                /\ s.i < totalNodes

C31_OpenCallsRunOn ==
    \A c \in Clients :
       (StrongRequest(sr[c]) /\ sr[c].status = StatusOK) => sr[c].cut = {}

\* C32: one user has at most one token bucket: a request inside AllowRequest
\* holds the bucket that the store maps the user to, and a bucket that is
\* replaced in the map has not consumed a token.
C32_OneBucketPerUser ==
    /\ [](\A t \in LimThreads : lim[t].pc = "found" => lim[t].bucket = bucketOf)
    /\ [][(bucketOf # 0 /\ bucketOf' # bucketOf) =>
             buckets[bucketOf].tokens = maxTokens * TokenUnit]_vars

(***************************************************************************)
(* Claims about the coordinator's metrics and its shutdown                 *)
(***************************************************************************)
\* C33: max_replication_lag_ms never decreases, and whenever no attempt is
\* under way it is the largest lag a finished attempt has measured.
C33_MaxLagHighWaterMark ==
    /\ [][replicator'.maxLag >= replicator.maxLag]_vars
    /\ []((\A w \in Workers : ~worker[w].busy) =>
             replicator.maxLag = replicator.observed)

\* C34: once Stop has closed stopCh, no eventual worker and no retry worker
\* takes another task from its queue.
C34_NoTaskBegunAfterStop ==
    [][replicator.stopCh =>
          \A w \in Workers : worker[w].busy \/ ~worker'[w].busy]_vars

(***************************************************************************)
(* Claims about the gateway's middleware                                   *)
(***************************************************************************)
\* the request of goroutine t must pass authentication: it is not for /health.
NeedsAuth(m) == m.path # "/health"

\* C35: authentication comes before the rate limit and the rate limit before
\* the handler.  A request answered 401 has never been in rls.AllowRequest, and
\* the buckets change only in a step of an authenticated request; a request
\* answered 429 is never served; a request for /health is served without a
\* key and without rls.AllowRequest; a request that is served and is not for
\* /health has a valid key and was admitted by the limiter.
C35_AuthThenLimitThenHandler ==
    /\ [](\A t \in LimThreads :
            LET m == mw[t]
            IN /\ m.status = StatusUnauthorized =>
                     (~m.limited /\ ~m.served /\ lim[t] = IdleLim)
               /\ (m.pc # "idle" /\ NeedsAuth(m) /\ ~validateAPIKey(m.apiKey)) =>
                     (m.pc = "done" /\ m.status = StatusUnauthorized)
               /\ m.status = StatusTooManyRequests => (~m.served /\ ~m.allowed)
               /\ (m.pc # "idle" /\ ~NeedsAuth(m)) =>
                     (~m.limited /\ m.status \in {0, StatusOK} /\ lim[t] = IdleLim)
               /\ (m.served /\ NeedsAuth(m)) =>
                     (validateAPIKey(m.apiKey) /\ m.limited /\ m.allowed))
    /\ [][(buckets' # buckets \/ bucketOf' # bucketOf) =>
             \E t \in LimThreads :
                /\ NeedsAuth(mw[t]) /\ validateAPIKey(mw[t].apiKey)
                /\ mw[t].pc = "limit" /\ lim'[t] # lim[t]]_vars

\* C35 witness: of three concurrent requests for a key one without a valid API
\* key was answered 401, one was admitted and served, and one was answered 429
\* against the bucket the admitted one had emptied.
C35_Witness ==
    /\ \E t \in LimThreads : mw[t].status = StatusUnauthorized
    /\ \E t \in LimThreads : mw[t].status = StatusTooManyRequests
    /\ \E t \in LimThreads : NeedsAuth(mw[t]) /\ mw[t].served
    /\ Len(buckets) = 1

(***************************************************************************)
(* Claims about the storage node's metrics and failed writes               *)
(***************************************************************************)
\* C36: at every instant key_count is the number of keys for which a GET at
\* that instant is answered 200.
C36_KeyCountMatchesReads ==
    KeyCount(data, now) =
       Cardinality({k \in Keys : handleGet(data, k, now) = StatusOK})

\* the tasks scheduled for a retry that the retry worker has not yet dequeued:
\* those waiting out their backoff and those in the retry channel.
AwaitingRetry == Cardinality(backoff) + Len(retryQueue)

\* worker w is in an attempt in which a replica call has failed and whose task
\* has attempts remaining.
FailureRecorded(w) ==
    /\ worker[w].busy
    /\ worker[w].successCount < worker[w].idx - 1
    /\ MayRetry(worker[w].task)

C38_FailedWriteStaysWithoutEffect ==
    [][\A r \in Handlers :
          ( /\ req[r].pc = "recv"
            /\ req'[r].pc = "idle"
            /\ req'[r].resp = StatusInternalServerError ) =>
             \A k \in Keys :
                StorageGet(WALRestore(wal', <<>>, now), k, now)
                   = StorageGet(WALRestore(wal, <<>>, now), k, now)]_vars

(***************************************************************************)
(* Claims about termination on the ring and the strong response's body     *)
(***************************************************************************)
\* C39: on every ring that NewHashRing, AddNode and RemoveNode produce, from
\* any node list, LocateKey(key, n) returns for every key position and every
\* n, the n <= 0 that stands for replicationN included.
C39_LocateKeyTerminates ==
    \A keyHash \in KeyHashes : \A n \in 0..(Len(RingNodes) + 1) :
        LocateHash(ring, keyHash, n) # Diverges

\* C40: the acked_nodes of a strong 200 response name at least floor(N/2)+1
\* replicas, each of which answered 2xx.
C40_AckedNodesNameQuorum ==
    \A c \in Clients :
       (StrongRequest(sr[c]) /\ sr[c].status = StatusOK) =>
          /\ Len(sr[c].respAcked) >= (Len(sr[c].replicas) \div 2) + 1
          /\ \A i \in 1..Len(sr[c].respAcked) :
                \E j \in sr[c].acked : sr[c].replicas[j] = sr[c].respAcked[i]

============================================================================
